---- MODULE Spec2Model ----
(***************************************************************************)
(* A model of TL2's live ingestion path.                                   *)
(*                                                                         *)
(*   Spec     the fan-out dispatcher of run_ingester, the scrapers that    *)
(*            feed its event channel, and the ingress channel and          *)
(*            life-cycle of every sink worker behind it;                   *)
(*   SpecLive Spec with the scheduling of the dispatcher task (weak        *)
(*            fairness of Dispatch only: sink workers may stall);          *)
(*   SpecES   the ElasticsearchWorker (work / run_writer) in detail, fed   *)
(*            by its ingress channel;                                      *)
(*   SpecESFair SpecES with the scheduling of the worker task.             *)
(***************************************************************************)
EXTENDS Integers, Sequences, FiniteSets, TLC

\* ------------------------------------------------------------------ bounds

\* Events the scrapers send during one run of the model.
MaxEvents == 3

\* ------------------------------------------------------------ dispatcher state

VARIABLES
    eventChan,      \* source -> dispatcher unbounded channel (event_sender / event_receiver)
    nextId,         \* number of events the scrapers have sent so far
    writers,        \* writers: Vec<Option<Writers>>; TRUE = Some, FALSE = None
    sinkChan,       \* per writer: the unbounded channel tx -> worker rx
    rxOpen,         \* per writer: the worker still holds its receiver
    wpc,            \* per writer: where its worker task is
    received,       \* history, per writer: the items its worker got from rx.recv()
    writeLog,       \* history, per writer: ids of the events write() was called with
    failedAt,       \* history, per writer: number of events dispatched when its write failed (0: never)
    dispatched,     \* history: the events the dispatcher received, in order
    quarantineAlerts, \* history: writer indices the dispatcher alerted about, in order
    erred            \* history, per writer: "no", "erred" once its worker has handled an
                     \* error, "written" once a write has succeeded after that

dvars == <<eventChan, nextId, writers, sinkChan, rxOpen, wpc, received, writeLog,
           failedAt, dispatched, quarantineAlerts, erred>>

\* ------------------------------------------------- ElasticsearchWorker state

VARIABLES
    esRx,            \* the worker's channel rx: messages sent and not yet received
    esNext,          \* number of messages the writer has sent so far
    esTxOpen,        \* the writer (the only sender, tx) has not been dropped
    esPc,            \* "init" | "recv" | "process" | "sleep" | "done"
    retries,         \* ElasticsearchWorker.retries
    has_sent_failed, \* the local of work()
    batch,           \* the local of run_writer()
    period_seconds,  \* ElasticsearchWorker.period_seconds
    max_retry_seconds, \* ElasticsearchWorker.max_retry_seconds
    esTrigger,       \* what made should_fire true for the request in flight: "full" | "period" | "none"
    esSleep,         \* retry_seconds of the sleep in progress
    esRunFailed,     \* the run_writer call that ended last returned Err
    esAlerts,        \* history: the alerts work() sent, in order
    esIndexed,       \* history: the messages of the bulk requests that succeeded
    esFailedBatch,   \* history: the batch of the last bulk request, if it failed
    esFails          \* history: failed runs since the last successful flush

esvars == <<esRx, esNext, esTxOpen, esPc, retries, has_sent_failed, batch,
            period_seconds, max_retry_seconds, esTrigger, esSleep, esRunFailed,
            esAlerts, esIndexed, esFailedBatch, esFails>>

\* --------------------------------------------------------- FileWorker state

VARIABLES
    fRx,        \* the worker's channel rx: SimpleMessageGroups sent and not yet received
    fNext,      \* number of messages FileWriter::write has sent so far
    fCur,       \* process(): the messages of the group in hand still to be written
    fHas,       \* per channel: file_queues.contains_key(channel)
    fQueue,     \* per channel and day: QueuedAppender.queue[path]
    fElapsed,   \* per channel: seconds since QueuedAppender.last_time
    fFiles,     \* per channel and day: the lines of <root>/<channel>/<day>.txt
    fLast       \* history: what the last write_to_file did

fvars == <<fRx, fNext, fCur, fHas, fQueue, fElapsed, fFiles, fLast>>

\* ----------------------------------------------------- UsernameWorker state

VARIABLES
    uPc,        \* "init" before init_tables, "run" in the loop, "done" once returned
    uBatch,     \* config.batch_size
    uQueue,     \* updates_queue
    uNext,      \* number of UsernameUpdateEvents made so far
    uDb,        \* the rows of name_changes
    uLast       \* history: what the last turn of the loop did

uvars == <<uPc, uBatch, uQueue, uNext, uDb, uLast>>

\* ---------------------------------------------------------- DggWorker state

VARIABLES
    gPc,            \* "top" of the loop of run, "connect" in start_websocket before
                    \* the request loop, "open" in the request loop, "stopped" once
                    \* run has returned, "panicked" once an unwrap has failed
    failing,        \* DggWorker.failing
    backoff,        \* the local backoff of run, in seconds
    backoff_max,    \* DggWorker.backoff_max (settings.dgg_like.max_retry_seconds)
    use_get_key,    \* DggWorker.use_get_key
    received_pong,  \* the local received_pong of start_websocket
    gClock,         \* seconds the connection has been open, at the last timer tick
    gPingDue,       \* next deadline of ping_interval, in seconds since the connect
    gCheckDue,      \* next deadline of check_pong_interval
    gWaits,         \* history: the sleeps of run so far, each with whether a text
                    \* frame was received since the sleep before it
    gGotText,       \* history: a text frame was received since the last sleep
    gLog,           \* history: the pings sent and pongs received on the connection
    gEnd            \* history: how the last start_websocket ended

gvars == <<gPc, failing, backoff, backoff_max, use_get_key, received_pong, gClock,
           gPingDue, gCheckDue, gWaits, gGotText, gLog, gEnd>>

\* ---------------------------------------------------------- ORL parser state

VARIABLES
    pIn,        \* the timestamp field given to the parsers: its form and components
    pLineForm,  \* the form of the line built around it for parse_message_line
    pBuild,     \* "debug" (overflow checks on) or "release" (wrapping arithmetic)
    pChrono,    \* whether the chrono of the build takes a leap-second millisecond
                \* (1000..1999) at any second ("any") or only at second 59 ("59")
    pPc,        \* "start", "ts" after parse_timestamp, "line" after parse_message_line,
                \* "again" after the record was written and parsed again
    pTs,        \* what parse_timestamp returned
    pMsg,       \* what parse_message_line returned
    pSlow,      \* what parse_timestamp_slow returned
    pWritten,   \* the line written for the record of parse_message_line
    pAgain      \* what parse_message_line returned for the written line

pvars == <<pIn, pLineForm, pBuild, pChrono, pPc, pTs, pMsg, pSlow, pWritten, pAgain>>

\* ------------------------------------------------------- normalization state

VARIABLES
    nIn,        \* the SimpleMessage given to normalize
    nPc,        \* "start", "once" after normalize, "twice" after a second normalize
    nOnce,      \* normalize(m)
    nTwice,     \* normalize(normalize(m))
    oChannel,   \* the channel of an ORL file: the name of its directory
    oLineForm,  \* the form of a line of the file
    oPc,        \* "start", "built" after both records were built, "ids" after get_id
    oParsed,    \* what parse_orl_log returned for the channel and the line
    oNormal,    \* OrlLog::normalize of the raw record of the same channel and line
    oIds        \* get_id of the two records

nvars == <<nIn, nPc, nOnce, nTwice, oChannel, oLineForm, oPc, oParsed, oNormal, oIds>>

\* ------------------------------------------------------------- main state

VARIABLES
    mCmd,       \* the subcommand of the command line
    mFilter,    \* the log filter of the environment, "info" by default
    mPc,        \* "start", "parsed", "run", "returned", "exited"
    mResult,    \* what the run of the subcommand returned
    mLog,       \* the lines logged
    mExit       \* the exit status of the process, -1 while it runs

mvars == <<mCmd, mFilter, mPc, mResult, mLog, mExit>>

\* ------------------------------------------------------ JsonFileSource state

VARIABLES
    jFiles,     \* the files of root_dir: each a sequence of records, "ok" or "bad"
    jRead,      \* how many files have been read and put in a chunk
    jPending,   \* the chunks of file contents not yet parsed (sets of file indices)
    jDelivered, \* the records the stream has yielded, as <<file, place>>
    jPc         \* "run", "done" when the stream has ended, "panicked"

jvars == <<jFiles, jRead, jPending, jDelivered, jPc>>

\* ------------------------------------------------- Elasticsearch bulk state

VARIABLES
    iMsgs,      \* the UTC dates of the timestamps of two messages of a chunk
    iPath,      \* "sink" (add_log_to_payload) or "script" (write_elastic_chunk)
    iPc,        \* "start", "named" after the bulk body was built
    iIndex      \* the _index of the action line of each message

ivars == <<iMsgs, iPath, iPc, iIndex>>

\* ---------------------------------------------------------- split_insert state

VARIABLES
    sLen,       \* the length of the chunk: its messages are 1..sLen
    sCount,     \* the number of inserters
    sPc,        \* "start", "join", "returned", "done"
    sTask,      \* per inserter: "none", "spawned", "ok" or "err" (insert_messages)
    sRows,      \* per inserter: the messages its insert_messages task has written
    sResult,    \* what split_insert returned: "none", "ok" or "err"
    sCaller     \* dir_to_clickhouse: "running", "continued" or "stopped"

svars == <<sLen, sCount, sPc, sTask, sRows, sResult, sCaller>>

\* ---------------------------------------------------- ClickhouseBulkSink state

VARIABLES
    bTotal,     \* the chunks of the input stream: chunk k holds k rows
    bNext,      \* how many chunks run has taken from the stream
    bHeld,      \* the chunk run is sending, 0 when it holds none
    bChan,      \* the chunks queued in the bounded channel
    bClosed,    \* sender.close() was called
    bWorker,    \* per worker: "recv", "write", "ok" or "err" (returned)
    bHolding,   \* per worker: the chunk it is writing, 0 when none
    bWritten,   \* per worker: the chunks whose write_batch returned Ok
    bCount,     \* the AtomicUsize count
    bPc,        \* run: "next", "send", "join" or "returned"
    bResult     \* what run returned: "none", "ok" or "err"

bvars == <<bTotal, bNext, bHeld, bChan, bClosed, bWorker, bHolding, bWritten,
           bCount, bPc, bResult>>

vars == <<dvars, esvars, fvars, uvars, gvars, pvars, nvars, mvars, jvars, ivars, svars, bvars>>

otherThanDispatcher == <<esvars, fvars, uvars, gvars, pvars, nvars, mvars, jvars, ivars, svars, bvars>>

otherThanES == <<dvars, fvars, uvars, gvars, pvars, nvars, mvars, jvars, ivars, svars, bvars>>

otherThanFile == <<dvars, esvars, uvars, gvars, pvars, nvars, mvars, jvars, ivars, svars, bvars>>

otherThanUsername == <<dvars, esvars, fvars, gvars, pvars, nvars, mvars, jvars, ivars, svars, bvars>>

otherThanDgg == <<dvars, esvars, fvars, uvars, pvars, nvars, mvars, jvars, ivars, svars, bvars>>

otherThanParser == <<dvars, esvars, fvars, uvars, gvars, nvars, mvars, jvars, ivars, svars, bvars>>

otherThanNormalize == <<dvars, esvars, fvars, uvars, gvars, pvars, mvars, jvars, ivars, svars, bvars>>

otherThanMain == <<dvars, esvars, fvars, uvars, gvars, pvars, nvars, jvars, ivars, svars, bvars>>

otherThanJson == <<dvars, esvars, fvars, uvars, gvars, pvars, nvars, mvars, ivars, svars, bvars>>

otherThanIndex == <<dvars, esvars, fvars, uvars, gvars, pvars, nvars, mvars, jvars, svars, bvars>>

otherThanSplit == <<dvars, esvars, fvars, uvars, gvars, pvars, nvars, mvars, jvars, ivars, bvars>>

otherThanBulk == <<dvars, esvars, fvars, uvars, gvars, pvars, nvars, mvars, jvars, ivars, svars>>

\* The writers pushed by run_ingester, in its push order, for a configuration that
\* enables elasticsearch, filesystem and username_tracker.
WriterKinds == <<"Elasticsearch", "File", "UsernameTracker">>

Writers == 1..Len(WriterKinds)

\* The kinds of event a scraper sends, by what the sinks make of them: a Twitch
\* PRIVMSG that carries bits (a group of two SimpleMessages) and a DGG JOIN (an
\* empty group).
EventKinds == {"PrivmsgBits", "DggJoin"}

\* AllEvents::Twitch(_) or AllEvents::Dgg(_).
IsTwitch(kind) == kind = "PrivmsgBits"

\* Number of SimpleMessages in SimpleMessageGroup::from(event).
GroupSize(kind) ==
    CASE kind = "PrivmsgBits" -> 2
      [] kind = "DggJoin" -> 0

\* What writer i's write(event) sends on its tx, in order.
Sends(i, e) ==
    CASE WriterKinds[i] = "Elasticsearch" ->
            [k \in 1..GroupSize(e.kind) |-> [ev |-> e.id, part |-> k]]
      [] WriterKinds[i] = "File" ->
            <<[ev |-> e.id, part |-> 0]>>
      [] WriterKinds[i] = "UsernameTracker" ->
            IF IsTwitch(e.kind) THEN <<[ev |-> e.id, part |-> 0]>> ELSE <<>>

\* A write that also fails while the worker sleeps in its back-off.
WriteOkUnlessSleeping(i, e) == Sends(i, e) = <<>> \/ (rxOpen[i] /\ wpc[i] # "sleep")

\* A write that fails on a dropped receiver whatever it has to send.
WriteOkOnlyIfOpen(i, e) == rxOpen[i]

\* UnboundedSender::send fails exactly when the receiver has been dropped; a write
\* that sends nothing returns Ok.
WriteOk(i, e) == Sends(i, e) = <<>> \/ rxOpen[i]

\* A channel that hands out the newest items first.
EnqueueFront(q, items) == items \o q

\* UnboundedSender::send appends at the back of the channel.
Enqueue(q, items) == q \o items

\* A send that waits while the worker has not taken the previous items (a
\* bounded channel).
WriteBlocksWhenBacklogged(i) == rxOpen[i] /\ sinkChan[i] # <<>>

\* UnboundedSender::send never waits for room in the channel.
WriteBlocks(i) == FALSE

\* A loop that does not skip the None slots.
AllWriterSlots == Writers

\* `if let Some(writer) = writer`: the writers the loop calls write on.
ActiveWriters == {i \in Writers : writers[i]}

\* A loop that records no failing writer.
ToRemoveNothing(e) == {}

\* to_remove after the inner loop over the writers.
ToRemove(e) == {i \in ActiveWriters : ~WriteOk(i, e)}

\* A to_remove that gives one alert for an iteration, whatever its length.
AscendingFirst(S) ==
    IF S = {} THEN <<>> ELSE <<CHOOSE x \in S : \A y \in S : x <= y>>

\* The indices of a set, ascending: the order in which to_remove is filled.
RECURSIVE Ascending(_)
Ascending(S) ==
    IF S = {} THEN <<>>
    ELSE LET m == CHOOSE x \in S : \A y \in S : x <= y
         IN <<m>> \o Ascending(S \ {m})

InitDispatch ==
    /\ eventChan = <<>>
    /\ nextId = 0
    /\ writers = [i \in Writers |-> TRUE]
    /\ sinkChan = [i \in Writers |-> <<>>]
    /\ rxOpen = [i \in Writers |-> TRUE]
    /\ wpc = [i \in Writers |->
                IF WriterKinds[i] = "UsernameTracker" THEN "init" ELSE "run"]
    /\ received = [i \in Writers |-> <<>>]
    /\ writeLog = [i \in Writers |-> <<>>]
    /\ failedAt = [i \in Writers |-> 0]
    /\ dispatched = <<>>
    /\ quarantineAlerts = <<>>
    /\ erred = [i \in Writers |-> "no"]

\* A scraper sends one event on its clone of event_sender.
ScraperSend ==
    /\ nextId < MaxEvents
    /\ \E k \in EventKinds :
          eventChan' = Append(eventChan, [id |-> nextId + 1, kind |-> k])
    /\ nextId' = nextId + 1
    /\ UNCHANGED <<writers, sinkChan, rxOpen, wpc, received, writeLog, failedAt,
                   dispatched, quarantineAlerts, erred>>
    /\ UNCHANGED otherThanDispatcher

\* One iteration of `while let Some(message) = event_receiver.recv().await`.
Dispatch ==
    /\ eventChan # <<>>
    /\ \A i \in ActiveWriters : ~WriteBlocks(i)
    /\ LET e == Head(eventChan)
           rm == ToRemove(e)
       IN /\ eventChan' = Tail(eventChan)
          /\ dispatched' = Append(dispatched, e)
          /\ writeLog' = [i \in Writers |->
                            IF i \in ActiveWriters
                            THEN Append(writeLog[i], e.id) ELSE writeLog[i]]
          /\ sinkChan' = [i \in Writers |->
                            IF i \in ActiveWriters /\ rxOpen[i]
                            THEN Enqueue(sinkChan[i], Sends(i, e)) ELSE sinkChan[i]]
          /\ writers' = [i \in Writers |-> IF i \in rm THEN FALSE ELSE writers[i]]
          /\ failedAt' = [i \in Writers |->
                            IF i \in rm THEN Len(dispatched) + 1 ELSE failedAt[i]]
          /\ quarantineAlerts' = quarantineAlerts \o Ascending(rm)
          /\ erred' = [i \in Writers |->
                         IF /\ i \in ActiveWriters \ rm
                            /\ Sends(i, e) # <<>>
                            /\ erred[i] = "erred"
                         THEN "written" ELSE erred[i]]
    /\ UNCHANGED <<nextId, rxOpen, wpc, received>>
    /\ UNCHANGED otherThanDispatcher

\* A sink worker takes the next item from its channel: rx.recv().await in
\* FileWorker::run, UsernameWorker::run and ElasticsearchWorker::run_writer.  A
\* failure of FileWorker::process (a disk error) or UsernameWorker::process is
\* logged and the loop goes on.
WorkerRecv(i) ==
    /\ wpc[i] = "run"
    /\ rxOpen[i]
    /\ sinkChan[i] # <<>>
    /\ received' = [received EXCEPT ![i] = Append(@, Head(sinkChan[i]))]
    /\ sinkChan' = [sinkChan EXCEPT ![i] = Tail(@)]
    /\ \E ok \in BOOLEAN :
          erred' = IF ok \/ WriterKinds[i] = "Elasticsearch" THEN erred
                   ELSE [erred EXCEPT ![i] = "erred"]
    /\ UNCHANGED <<eventChan, nextId, writers, rxOpen, wpc, writeLog, failedAt,
                   dispatched, quarantineAlerts>>
    /\ UNCHANGED otherThanDispatcher

\* UsernameWorker::run starts with init_tables; on an error it returns, which
\* drops rx and everything queued in it.
UsernameWorkerInit(i) ==
    /\ WriterKinds[i] = "UsernameTracker"
    /\ wpc[i] = "init"
    /\ \E ok \in BOOLEAN :
          IF ok
          THEN /\ wpc' = [wpc EXCEPT ![i] = "run"]
               /\ UNCHANGED <<rxOpen, sinkChan>>
          ELSE /\ wpc' = [wpc EXCEPT ![i] = "done"]
               /\ rxOpen' = [rxOpen EXCEPT ![i] = FALSE]
               /\ sinkChan' = [sinkChan EXCEPT ![i] = <<>>]
    /\ UNCHANGED <<eventChan, nextId, writers, received, writeLog, failedAt,
                   dispatched, quarantineAlerts, erred>>
    /\ UNCHANGED otherThanDispatcher

\* ElasticsearchWorker::work as the dispatcher sees it: run_writer fails
\* (initialization or a bulk request) and the worker either sleeps in back-off or,
\* past 100 retries, returns and drops rx.  The retry counter that decides between
\* the two is modelled in SpecES; here either may happen.
ElasticWorkerFail(i) ==
    /\ WriterKinds[i] = "Elasticsearch"
    /\ wpc[i] = "run"
    /\ \E giveUp \in BOOLEAN :
          IF giveUp
          THEN /\ wpc' = [wpc EXCEPT ![i] = "done"]
               /\ rxOpen' = [rxOpen EXCEPT ![i] = FALSE]
               /\ sinkChan' = [sinkChan EXCEPT ![i] = <<>>]
               /\ erred' = erred
          ELSE /\ wpc' = [wpc EXCEPT ![i] = "sleep"]
               /\ erred' = [erred EXCEPT ![i] = "erred"]
               /\ UNCHANGED <<rxOpen, sinkChan>>
    /\ UNCHANGED <<eventChan, nextId, writers, received, writeLog, failedAt,
                   dispatched, quarantineAlerts>>
    /\ UNCHANGED otherThanDispatcher

\* tokio::time::sleep(retry_seconds) is over and work() loops.
ElasticWorkerWake(i) ==
    /\ WriterKinds[i] = "Elasticsearch"
    /\ wpc[i] = "sleep"
    /\ wpc' = [wpc EXCEPT ![i] = "run"]
    /\ UNCHANGED <<eventChan, nextId, writers, sinkChan, rxOpen, received, writeLog,
                   failedAt, dispatched, quarantineAlerts, erred>>
    /\ UNCHANGED otherThanDispatcher

\* ------------------------------------------------------- ElasticsearchWorker

\* Messages ElasticsearchWriter::write sends to the worker during one run of the model.
MaxMsgs == 3

\* MAX_BATCH_SIZE is 8192 in the source (elasticsearch.rs:68); the model scales it
\* down so that a full batch is reached with MaxMsgs messages.
MAX_BATCH_SIZE == 2

BASE_RETRY_SECONDS == 5

MIN_PERIOD_SECONDS == 2

\* The values of config.max_retry_seconds the model is run with: below
\* BASE_RETRY_SECONDS, between two multiples of it, and a large one.
MaxRetryChoices == {3, 12, 360}

Min(a, b) == IF a <= b THEN a ELSE b

Max(a, b) == IF a >= b THEN a ELSE b

Range(s) == {s[k] : k \in DOMAIN s}

\* retry_seconds without the cap.
RetrySecondsUncapped(r, m) == Max(BASE_RETRY_SECONDS * r, BASE_RETRY_SECONDS)

\* retry_seconds in work().
RetrySeconds(r, m) == Min(Max(BASE_RETRY_SECONDS * r, BASE_RETRY_SECONDS), m)

\* The alert condition without the has_sent_failed latch.
ShouldAlertAlways(r, sent) == r > 5

\* `if self.retries > 5 && !has_sent_failed`.
ShouldAlert(r, sent) == r > 5 /\ ~sent

\* A shutdown as soon as the counter reaches 100.
ShouldShutDownAt100(r) == r >= 100

\* `if self.retries > 100`.
ShouldShutDown(r) == r > 100

\* `self.retries = 0` after a bulk request that succeeded.
RetriesAfterFlush(r) == 0

FailingAlert == "Elasticsearch is failing, 5 retries in..."

ShutdownAlert == "Shutting down elasticsearch adapter after 100 failed retries :("

InitES ==
    /\ esRx = <<>>
    /\ esNext = 0
    /\ esTxOpen = TRUE
    /\ esPc = "init"
    /\ retries = 0
    /\ has_sent_failed = FALSE
    /\ batch = <<>>
    /\ period_seconds = MIN_PERIOD_SECONDS
    /\ max_retry_seconds \in MaxRetryChoices
    /\ esTrigger = "none"
    /\ esSleep = 0
    /\ esRunFailed = FALSE
    /\ esAlerts = <<>>
    /\ esIndexed = {}
    /\ esFailedBatch = <<>>
    /\ esFails = 0

\* The rest of one iteration of the loop of work(), once run_writer has returned:
\* count the failure, alert, and either return (dropping rx) or start the sleep.
\* run_writer's locals, batch among them, are gone.
AfterRun(failed) ==
    LET r == IF failed THEN retries + 1 ELSE retries
        alert == ShouldAlert(r, has_sent_failed)
        a1 == IF alert THEN Append(esAlerts, FailingAlert) ELSE esAlerts
    IN /\ retries' = r
       /\ esFails' = IF failed THEN esFails + 1 ELSE esFails
       /\ esRunFailed' = failed
       /\ has_sent_failed' = (has_sent_failed \/ alert)
       /\ batch' = <<>>
       /\ esTrigger' = "none"
       /\ IF ShouldShutDown(r)
          THEN /\ esAlerts' = Append(a1, ShutdownAlert)
               /\ esPc' = "done"
               /\ esRx' = <<>>
               /\ esSleep' = 0
          ELSE /\ esAlerts' = a1
               /\ esPc' = "sleep"
               /\ esRx' = esRx
               /\ esSleep' = RetrySeconds(r, max_retry_seconds)

\* ElasticsearchWriter::write sends one message; the send fails, and queues
\* nothing, once the worker has returned.
ESSend ==
    /\ esTxOpen
    /\ esNext < MaxMsgs
    /\ esNext' = esNext + 1
    /\ esRx' = IF esPc = "done" THEN esRx ELSE Append(esRx, esNext + 1)
    /\ UNCHANGED <<esTxOpen, esPc, retries, has_sent_failed, batch, period_seconds,
                   max_retry_seconds, esTrigger, esSleep, esRunFailed, esAlerts,
                   esIndexed, esFailedBatch, esFails>>
    /\ UNCHANGED otherThanES

\* The ElasticsearchWriter is dropped: the channel is closed.
ESCloseTx ==
    /\ esTxOpen
    /\ esTxOpen' = FALSE
    /\ UNCHANGED <<esRx, esNext, esPc, retries, has_sent_failed, batch, period_seconds,
                   max_retry_seconds, esTrigger, esSleep, esRunFailed, esAlerts,
                   esIndexed, esFailedBatch, esFails>>
    /\ UNCHANGED otherThanES

\* run_writer starts: self.inititalize().await?, then the empty batch.
ESInitialize ==
    /\ esPc = "init"
    /\ \E ok \in BOOLEAN :
          IF ok
          THEN /\ esPc' = "recv"
               /\ batch' = <<>>
               /\ UNCHANGED <<esRx, retries, has_sent_failed, esTrigger, esSleep,
                              esRunFailed, esAlerts, esFails>>
          ELSE AfterRun(TRUE)
    /\ UNCHANGED <<esNext, esTxOpen, period_seconds, max_retry_seconds, esIndexed,
                   esFailedBatch>>
    /\ UNCHANGED otherThanES

\* `while let Some(msg) = self.rx.recv().await`: a message arrives, is pushed on
\* the batch, and should_fire is decided.  Whether more than period_seconds have
\* passed since last_time is the environment's choice.
ESRecv ==
    /\ esPc = "recv"
    /\ esRx # <<>>
    /\ esRx' = Tail(esRx)
    /\ batch' = Append(batch, Head(esRx))
    /\ \E elapsed \in BOOLEAN :
          LET trigger == IF Len(batch) + 1 >= MAX_BATCH_SIZE THEN "full"
                         ELSE IF elapsed THEN "period" ELSE "none"
          IN /\ esTrigger' = trigger
             /\ esPc' = IF trigger = "none" THEN "recv" ELSE "process"
    /\ UNCHANGED <<esNext, esTxOpen, retries, has_sent_failed, period_seconds,
                   max_retry_seconds, esSleep, esRunFailed, esAlerts, esIndexed,
                   esFailedBatch, esFails>>
    /\ UNCHANGED otherThanES

\* rx.recv() returns None: every sender is dropped and the channel is empty.
\* run_writer returns Ok(()).
ESRecvClosed ==
    /\ esPc = "recv"
    /\ esRx = <<>>
    /\ ~esTxOpen
    /\ AfterRun(FALSE)
    /\ UNCHANGED <<esNext, esTxOpen, period_seconds, max_retry_seconds, esIndexed,
                   esFailedBatch>>
    /\ UNCHANGED otherThanES

\* self.process(&batch).await: the bulk request succeeds, or fails (a request
\* error, or errors:true in the response) and `?` ends run_writer.
ESProcess ==
    /\ esPc = "process"
    /\ \E ok \in BOOLEAN :
          IF ok
          THEN /\ retries' = RetriesAfterFlush(retries)
               /\ esFails' = 0
               /\ esIndexed' = esIndexed \cup Range(batch)
               /\ esFailedBatch' = <<>>
               /\ batch' = <<>>
               /\ esTrigger' = "none"
               /\ esPc' = "recv"
               /\ UNCHANGED <<esRx, has_sent_failed, esSleep, esRunFailed, esAlerts>>
          ELSE /\ esFailedBatch' = batch
               /\ esIndexed' = esIndexed
               /\ AfterRun(TRUE)
    /\ UNCHANGED <<esNext, esTxOpen, period_seconds, max_retry_seconds>>
    /\ UNCHANGED otherThanES

\* The sleep of work() is over; the loop calls run_writer again.
ESWake ==
    /\ esPc = "sleep"
    /\ esPc' = "init"
    /\ UNCHANGED <<esRx, esNext, esTxOpen, retries, has_sent_failed, batch,
                   period_seconds, max_retry_seconds, esTrigger, esSleep, esRunFailed,
                   esAlerts, esIndexed, esFailedBatch, esFails>>
    /\ UNCHANGED otherThanES

\* ----------------------------------------------------------------- FileWorker

\* Messages FileWriter::write sends to the worker during one run of the model.
MaxLines == 4

\* The capacity handed to QueuedAppender::new is 50 in the source (file.rs:92);
\* the model scales it down so that a full buffer is reached with MaxLines lines.
FileCapacity == 2

\* The period handed to QueuedAppender::new, in seconds.
FilePeriodSeconds == 5

\* The channels and the days (of the messages' timestamps) of the model.
FChannels == {"A", "B"}

FDays == {1, 2}

NoWrite == [id |-> 0, ch |-> "-", step |-> "none", flush |-> "none", ok |-> TRUE]

\* The instants of a QueuedAppender's clock the model tells apart: just created
\* or flushed (0), one second short of the period, the period, and beyond.
NextInstant(t) ==
    IF t < FilePeriodSeconds - 1 THEN FilePeriodSeconds - 1
    ELSE IF t <= FilePeriodSeconds THEN t + 1 ELSE t

\* A time_ready with the comparison turned round.
TimeReadyFlipped(elapsed) == FilePeriodSeconds >= elapsed

\* QueuedAppender::time_ready.
TimeReady(elapsed) == FilePeriodSeconds <= elapsed

\* QueuedAppender::queue_len, of the queue q of one channel.
QueueLen(q) == Len(q[1]) + Len(q[2])

EmptyQueue == [d \in FDays |-> <<>>]

InitFile ==
    /\ fRx = <<>>
    /\ fNext = 0
    /\ fCur = <<>>
    /\ fHas = [c \in FChannels |-> FALSE]
    /\ fQueue = [c \in FChannels |-> EmptyQueue]
    /\ fElapsed = [c \in FChannels |-> 0]
    /\ fFiles = [c \in FChannels |-> EmptyQueue]
    /\ fLast = NoWrite

\* FileWriter::write sends the SimpleMessageGroup of one event: one message, or
\* two of the same channel and timestamp (a PRIVMSG with bits).
FileSend ==
    /\ \E n \in 1..2, c \in FChannels, d \in FDays :
          /\ fNext + n <= MaxLines
          /\ fRx' = Append(fRx, [k \in 1..n |-> [id |-> fNext + k, ch |-> c, day |-> d]])
          /\ fNext' = fNext + n
    /\ UNCHANGED <<fCur, fHas, fQueue, fElapsed, fFiles, fLast>>
    /\ UNCHANGED otherThanFile

\* FileWorker::run takes the next group from rx and calls process.
FileRecv ==
    /\ fCur = <<>>
    /\ fRx # <<>>
    /\ fCur' = Head(fRx)
    /\ fRx' = Tail(fRx)
    /\ UNCHANGED <<fNext, fHas, fQueue, fElapsed, fFiles, fLast>>
    /\ UNCHANGED otherThanFile

\* QueuedAppender::flush of channel c whose queue is q: the files are visited in
\* the HashMap's order and the first open or write_all that fails ends the flush,
\* so any part of the non-empty files may have been appended to when it fails.
\* Only a flush that succeeds sets last_time and clears the queue.
Flush(c, q, m) ==
    \E ok \in BOOLEAN, W \in SUBSET {d \in FDays : q[d] # <<>>} :
        /\ ok <=> W = {d \in FDays : q[d] # <<>>}
        /\ fFiles' = [fFiles EXCEPT ![c] =
                        [d \in FDays |-> IF d \in W THEN fFiles[c][d] \o q[d]
                                         ELSE fFiles[c][d]]]
        /\ fQueue' = [fQueue EXCEPT ![c] = IF ok THEN EmptyQueue ELSE q]
        /\ fElapsed' = [fElapsed EXCEPT ![c] = IF ok THEN 0
                                               ELSE IF fHas[c] THEN @ ELSE 0]
        /\ fCur' = IF ok THEN Tail(fCur) ELSE <<>>
        /\ fLast' = [id |-> m.id, ch |-> c, step |-> "write",
                     flush |-> IF ok THEN "ok" ELSE "failed", ok |-> ok]

\* One turn of the loop of process(): write_to_file for the next message of the
\* group.  An error (create_dir_all, or the flush) ends process and the rest of
\* the group is dropped.
FileWriteToFile ==
    /\ fCur # <<>>
    /\ LET m == Head(fCur)
           c == m.ch
           q == [fQueue[c] EXCEPT ![m.day] = Append(@, m.id)]
           elapsed == IF fHas[c] THEN fElapsed[c] ELSE 0
       IN \E dirOk \in BOOLEAN :
            IF ~fHas[c] /\ ~dirOk
            THEN /\ fCur' = <<>>
                 /\ fLast' = [id |-> m.id, ch |-> c, step |-> "mkdir",
                              flush |-> "none", ok |-> FALSE]
                 /\ UNCHANGED <<fHas, fQueue, fElapsed, fFiles>>
            ELSE /\ dirOk
                 /\ fHas' = [fHas EXCEPT ![c] = TRUE]
                 /\ IF QueueLen(q) >= FileCapacity \/ TimeReady(elapsed)
                    THEN Flush(c, q, m)
                    ELSE /\ fQueue' = [fQueue EXCEPT ![c] = q]
                         /\ fElapsed' = [fElapsed EXCEPT ![c] = elapsed]
                         /\ fCur' = Tail(fCur)
                         /\ fLast' = [id |-> m.id, ch |-> c, step |-> "write",
                                      flush |-> "none", ok |-> TRUE]
                         /\ UNCHANGED fFiles
    /\ UNCHANGED <<fRx, fNext>>
    /\ UNCHANGED otherThanFile

\* Time passes: the clock of every QueuedAppender that exists moves on.
FileTick ==
    /\ \E c \in FChannels : fHas[c] /\ NextInstant(fElapsed[c]) # fElapsed[c]
    /\ fElapsed' = [c \in FChannels |->
                      IF fHas[c] THEN NextInstant(fElapsed[c]) ELSE fElapsed[c]]
    /\ UNCHANGED <<fRx, fNext, fCur, fHas, fQueue, fFiles, fLast>>
    /\ UNCHANGED otherThanFile

\* ------------------------------------------------------------- UsernameWorker

\* Username updates the worker is given during one run of the model.
MaxUpdates == 12

\* The largest config.batch_size of the model.
MaxBatchSize == 2

\* The factor of `batch_size * 10` in UsernameWorker::run.
QueueFactor == 10

NoEvent == [n |-> 0, flush |-> "none", dropped |-> FALSE]

\* A drain that takes the newest batch_size updates instead.
DrainNewest(q, n) == SubSeq(q, 1, Len(q) - n)

\* updates_queue.drain(0..batch_size).
Drain(q, n) == SubSeq(q, n + 1, Len(q))

\* The test guarding the drain: updates_queue.len() >= batch_size * 10.
BackedUp(q, n) == Len(q) >= n * QueueFactor

InitUsername ==
    /\ uPc = "init"
    /\ uBatch \in 1..MaxBatchSize
    /\ uQueue = <<>>
    /\ uNext = 0
    /\ uDb = {}
    /\ uLast = NoEvent

\* UsernameWorker::run, before the loop: init_tables; its failure ends the worker.
UsernameInit ==
    /\ uPc = "init"
    /\ \E ok \in BOOLEAN : uPc' = IF ok THEN "run" ELSE "done"
    /\ UNCHANGED <<uBatch, uQueue, uNext, uDb, uLast>>
    /\ UNCHANGED otherThanUsername

\* UsernameWorker::process of the queue q.  Each INSERT OR REPLACE is executed on
\* the pool (write_to_db: .execute(&self.sqlite)), not on the transaction begun
\* before the loop, so each row is committed by itself as it is executed: the
\* first k rows are in name_changes when row k + 1 (or begin, or the commit of the
\* empty transaction) fails.
Process(q, k, commitOk) ==
    [ok |-> k = Len(q) /\ commitOk,
     db |-> uDb \cup {q[i] : i \in 1..k}]

\* One turn of the loop of UsernameWorker::run: the updates of the event (none,
\* one, or two for a gift with a known sender) are appended, the queue is
\* processed when it holds batch_size updates and cleared if that succeeds, and
\* the oldest batch_size updates are drained when it is backed up.
UsernameHandle ==
    /\ uPc = "run"
    /\ \E n \in 0..2 :
         /\ uNext + n <= MaxUpdates
         /\ uNext' = uNext + n
         /\ LET q == uQueue \o [i \in 1..n |-> uNext + i]
            IN IF Len(q) >= uBatch
               THEN \E k \in 0..Len(q), commitOk \in BOOLEAN :
                      LET r == Process(q, k, commitOk)
                          mid == IF r.ok THEN <<>> ELSE q
                      IN /\ uDb' = r.db
                         /\ uQueue' = IF BackedUp(mid, uBatch)
                                      THEN Drain(mid, uBatch) ELSE mid
                         /\ uLast' = [n |-> n,
                                      flush |-> IF r.ok THEN "ok" ELSE "failed",
                                      dropped |-> BackedUp(mid, uBatch)]
               ELSE /\ uDb' = uDb
                    /\ uQueue' = IF BackedUp(q, uBatch)
                                 THEN Drain(q, uBatch) ELSE q
                    /\ uLast' = [n |-> n, flush |-> "none",
                                 dropped |-> BackedUp(q, uBatch)]
    /\ UNCHANGED <<uPc, uBatch>>
    /\ UNCHANGED otherThanUsername

\* ------------------------------------------------------------------ DggWorker

\* Sleeps of DggWorker::run during one run of the model.
MaxWaits == 5

\* Seconds one connection is followed for.
MaxSeconds == 65

\* DggWorker.backoff_min, set by DggScraper::start.
BackoffMin == 2

\* The factor of `backoff * 3` in DggWorker::run.
BackoffFactor == 3

\* ping_every and check_pong_every of start_websocket, in seconds.
PingEverySeconds == 30

CheckPongEverySeconds == 5

\* The values of settings.dgg_like.max_retry_seconds of the model.
DggMaxRetryChoices == {1, 20, 360}

\* The kinds of tungstenite::Error the model tells apart.
WsErrors == {"ConnectionClosed", "AlreadyClosed", "Url", "Io", "Http",
             "HttpFormat", "Protocol", "Other"}

NotEnded == [at |-> "-", kind |-> "-", cmd |-> "-"]

\* backoff = self.backoff_max.min(backoff * 3).
GrownBackoff(b, max) == Min(max, b * BackoffFactor)

\* A Reconnect that never resets the back-off.
BackoffKept(f, b) == b

\* The Reconnect arm of run: if !self.failing { backoff = self.backoff_min; .. }.
BackoffOnReconnect(f, b) == IF ~f THEN BackoffMin ELSE b

\* A ping tick that leaves received_pong as it is.
PongFlagKept(r) == r

\* The ping tick: received_pong = false.
PongFlagOnPing(r) == FALSE

\* What the read arm of start_websocket returns for an error of the stream.
CommandForReadError(kind) == IF kind = "Url" THEN "Stop" ELSE "Reconnect"

InitDgg ==
    /\ gPc = "top"
    /\ failing = FALSE
    /\ backoff = BackoffMin
    /\ backoff_max \in DggMaxRetryChoices
    /\ use_get_key \in BOOLEAN
    /\ received_pong = FALSE
    /\ gClock = 0
    /\ gPingDue = 0
    /\ gCheckDue = 0
    /\ gWaits = <<>>
    /\ gGotText = FALSE
    /\ gLog = <<>>
    /\ gEnd = NotEnded

\* start_websocket returns cmd and the match of run handles it.
Returned(cmd, at, kind) ==
    /\ gPc' = IF cmd = "Stop" THEN "stopped" ELSE "top"
    /\ failing' = IF cmd = "Reconnect" THEN TRUE ELSE failing
    /\ backoff' = IF cmd = "Reconnect" THEN BackoffOnReconnect(failing, backoff)
                  ELSE backoff
    /\ gEnd' = [at |-> at, kind |-> kind, cmd |-> cmd]
    /\ received_pong' = FALSE
    /\ gPingDue' = 0
    /\ gCheckDue' = 0
    /\ gLog' = <<>>

\* The head of the loop of run: when failing, sleep for backoff seconds and grow
\* the back-off; then call start_websocket.
DggLoop ==
    /\ gPc = "top"
    /\ IF failing
       THEN /\ Len(gWaits) < MaxWaits
            /\ gWaits' = Append(gWaits, [wait |-> backoff, text |-> gGotText])
            /\ gGotText' = FALSE
            /\ backoff' = GrownBackoff(backoff, backoff_max)
       ELSE UNCHANGED <<gWaits, gGotText, backoff>>
    /\ gPc' = "connect"
    /\ UNCHANGED <<failing, backoff_max, use_get_key, received_pong, gClock,
                   gPingDue, gCheckDue, gLog, gEnd>>
    /\ UNCHANGED otherThanDgg

\* start_websocket up to the request loop: the chat key is fetched when
\* use_get_key, the request is built (request.body(()).unwrap() panics on an
\* endpoint or origin the builder rejects), and connect_async is called; any
\* error of connect_async, whatever its kind, returns Reconnect.
DggConnect ==
    /\ gPc = "connect"
    /\ \/ /\ use_get_key
          /\ Returned("Reconnect", "getkey", "KeyError")
          /\ UNCHANGED gClock
       \/ /\ gPc' = "panicked"
          /\ gEnd' = [at |-> "request", kind |-> "BadRequest", cmd |-> "-"]
          /\ UNCHANGED <<failing, backoff, received_pong, gClock, gPingDue,
                         gCheckDue, gLog>>
       \/ /\ \E kind \in WsErrors : Returned("Reconnect", "connect", kind)
          /\ UNCHANGED gClock
       \/ /\ gPc' = "open"
          /\ received_pong' = FALSE
          /\ gClock' = 0
          /\ gPingDue' = PingEverySeconds
          /\ gCheckDue' = PingEverySeconds + CheckPongEverySeconds
          /\ gLog' = <<>>
          /\ UNCHANGED <<failing, backoff, gEnd>>
    /\ UNCHANGED <<backoff_max, use_get_key, gWaits, gGotText>>
    /\ UNCHANGED otherThanDgg

\* read.next() yields a text frame: failing is cleared (the event, if the frame
\* parses to one, is sent to the dispatcher's channel).
DggText ==
    /\ gPc = "open"
    /\ failing' = FALSE
    /\ gGotText' = TRUE
    /\ UNCHANGED <<gPc, backoff, backoff_max, use_get_key, received_pong, gClock,
                   gPingDue, gCheckDue, gWaits, gLog, gEnd>>
    /\ UNCHANGED otherThanDgg

\* read.next() yields a Pong.
DggPong ==
    /\ gPc = "open"
    /\ received_pong' = TRUE
    /\ gLog' = IF gLog # <<>> /\ gLog[Len(gLog)].e = "pong" THEN gLog
               ELSE Append(gLog, [e |-> "pong", at |-> gClock])
    /\ UNCHANGED <<gPc, failing, backoff, backoff_max, use_get_key, gClock,
                   gPingDue, gCheckDue, gWaits, gGotText, gEnd>>
    /\ UNCHANGED otherThanDgg

\* read.next() yields a Close frame.
DggClose ==
    /\ gPc = "open"
    /\ Returned("Reconnect", "read", "Close")
    /\ UNCHANGED <<backoff_max, use_get_key, gClock, gWaits, gGotText>>
    /\ UNCHANGED otherThanDgg

\* read.next() yields an error.
DggReadError ==
    /\ gPc = "open"
    /\ \E kind \in WsErrors : Returned(CommandForReadError(kind), "read", kind)
    /\ UNCHANGED <<backoff_max, use_get_key, gClock, gWaits, gGotText>>
    /\ UNCHANGED otherThanDgg

\* ping_interval ticks: received_pong is cleared and a Ping is sent; a failed
\* send returns Reconnect.
DggPingTick ==
    /\ gPc = "open"
    /\ gPingDue < gCheckDue
    /\ gPingDue <= MaxSeconds
    /\ gClock' = gPingDue
    /\ \E sendOk \in BOOLEAN :
         IF sendOk
         THEN /\ received_pong' = PongFlagOnPing(received_pong)
              /\ gPingDue' = gPingDue + PingEverySeconds
              /\ gLog' = Append(gLog, [e |-> "ping", at |-> gPingDue])
              /\ UNCHANGED <<gPc, failing, backoff, gCheckDue, gEnd>>
         ELSE Returned("Reconnect", "ping", "SendError")
    /\ UNCHANGED <<backoff_max, use_get_key, gWaits, gGotText>>
    /\ UNCHANGED otherThanDgg

\* check_pong_interval ticks: without a Pong since the last Ping, Reconnect.
DggCheckTick ==
    /\ gPc = "open"
    /\ gCheckDue < gPingDue
    /\ gCheckDue <= MaxSeconds
    /\ gClock' = gCheckDue
    /\ IF ~received_pong
       THEN Returned("Reconnect", "check", "PongTimeout")
       ELSE /\ gCheckDue' = gCheckDue + PingEverySeconds
            /\ UNCHANGED <<gPc, failing, backoff, received_pong, gPingDue, gLog,
                           gEnd>>
    /\ UNCHANGED <<backoff_max, use_get_key, gWaits, gGotText>>
    /\ UNCHANGED otherThanDgg

\* ----------------------------------------------------------------- ORL parser

RECURSIVE Pow(_, _)
Pow(b, n) == IF n = 0 THEN 1 ELSE b * Pow(b, n - 1)

\* Characters are strings of length one and a string is a sequence of them.
DigitChars == <<"0", "1", "2", "3", "4", "5", "6", "7", "8", "9">>

UpperChars == <<"A", "B", "C", "D", "E", "F", "G", "H", "I", "J", "K", "L", "M",
                "N", "O", "P", "Q", "R", "S", "T", "U", "V", "W", "X", "Y", "Z">>

LowerChars == <<"a", "b", "c", "d", "e", "f", "g", "h", "i", "j", "k", "l", "m",
                "n", "o", "p", "q", "r", "s", "t", "u", "v", "w", "x", "y", "z">>

\* char::is_ascii_digit and char::to_digit(10).
IsDigit(c) == \E i \in 1..10 : DigitChars[i] = c

DigitVal(c) == (CHOOSE i \in 1..10 : DigitChars[i] = c) - 1

\* char::is_whitespace, for the white space of the model's inputs.
IsWhitespace(c) == c \in {" ", "\t", "\n"}

\* The 32-bit fields of parse_timestamp (year: i32, the others: u32) are kept as
\* their bit patterns, two 16-bit halves <<high, low>>.
Limb == 65536

Bits(n) == <<n \div Limb, n % Limb>>

\* The bits of x * 10 + d in 32-bit arithmetic, and whether the exact result fits:
\* `carry` when it does not fit u32, `sign` when it does not fit a non-negative i32.
MulAdd(x, d) ==
    LET low == x[2] * 10 + d
        high == x[1] * 10 + (low \div Limb)
    IN [bits |-> <<high % Limb, low % Limb>>,
        carry |-> high >= Limb,
        sign |-> high >= (Limb \div 2)]

\* The value of the bits as an i32.
Signed(x) == IF x[1] >= (Limb \div 2) THEN (x[1] - Limb) * Limb + x[2]
             ELSE x[1] * Limb + x[2]

\* A u32 field is below the bound n (n < 65536).
Below(x, n) == x[1] = 0 /\ x[2] < n

StartOfParse ==
    [state |-> "Start", year |-> Bits(0), month |-> Bits(0), day |-> Bits(0),
     hour |-> Bits(0), minute |-> Bits(0), second |-> Bits(0),
     millisecond |-> Bits(0), status |-> "run", overflow |-> FALSE]

\* field = field * 10 + c.to_digit(10): an overflow panics in a debug build and
\* wraps in a release build.
Accumulate(ps, field, c, build) ==
    LET r == MulAdd(ps[field], DigitVal(c))
        over == IF field = "year" THEN r.sign \/ ps.year[1] >= (Limb \div 2)
                ELSE r.carry
    IN IF over /\ build = "debug"
       THEN [ps EXCEPT !.status = "panic", !.overflow = TRUE]
       ELSE [ps EXCEPT ![field] = r.bits, !.overflow = @ \/ over]

Bail(ps) == [ps EXCEPT !.status = "bail"]

\* One turn of `for c in timestamp_str.chars()`.
ParseChar(ps, c, build) ==
    CASE ps.state = "Start" ->
            IF IsDigit(c)
            THEN [ps EXCEPT !.year = Bits(DigitVal(c)), !.state = "Year"]
            ELSE IF ~IsWhitespace(c) THEN Bail(ps) ELSE ps
      [] ps.state = "Year" ->
            IF IsDigit(c) THEN Accumulate(ps, "year", c, build)
            ELSE IF c = "-" THEN [ps EXCEPT !.state = "Month"] ELSE Bail(ps)
      [] ps.state = "Month" ->
            IF IsDigit(c) THEN Accumulate(ps, "month", c, build)
            ELSE IF c = "-" THEN [ps EXCEPT !.state = "Day"] ELSE Bail(ps)
      [] ps.state = "Day" ->
            IF IsDigit(c) THEN Accumulate(ps, "day", c, build)
            ELSE IF c = " " THEN [ps EXCEPT !.state = "Time"] ELSE Bail(ps)
      [] ps.state = "Time" ->
            IF IsDigit(c)
            THEN [Accumulate(ps, "hour", c, build) EXCEPT !.state = "Hour"]
            ELSE IF ~IsWhitespace(c) THEN Bail(ps) ELSE ps
      [] ps.state = "Hour" ->
            IF IsDigit(c) THEN Accumulate(ps, "hour", c, build)
            ELSE IF c = ":" THEN [ps EXCEPT !.state = "Minute"] ELSE Bail(ps)
      [] ps.state = "Minute" ->
            IF IsDigit(c) THEN Accumulate(ps, "minute", c, build)
            ELSE IF c = ":" THEN [ps EXCEPT !.state = "Second"] ELSE Bail(ps)
      [] ps.state = "Second" ->
            IF IsDigit(c) THEN Accumulate(ps, "second", c, build)
            ELSE IF c = "." THEN [ps EXCEPT !.state = "Millisecond"]
            ELSE IF IsWhitespace(c) THEN [ps EXCEPT !.status = "break"]
            ELSE Bail(ps)
      [] ps.state = "Millisecond" ->
            IF IsDigit(c) THEN Accumulate(ps, "millisecond", c, build)
            ELSE IF IsWhitespace(c) THEN [ps EXCEPT !.status = "break"]
            ELSE Bail(ps)

RECURSIVE ParseChars(_, _, _, _)
ParseChars(ps, s, i, build) ==
    IF i > Len(s) \/ ps.status # "run" THEN ps
    ELSE ParseChars(ParseChar(ps, s[i], build), s, i + 1, build)

IsLeapYear(y) == (y % 4 = 0 /\ y % 100 # 0) \/ y % 400 = 0

DaysInMonth(y, m) ==
    IF m = 2 THEN (IF IsLeapYear(y) THEN 29 ELSE 28)
    ELSE IF m \in {4, 6, 9, 11} THEN 30 ELSE 31

\* NaiveDate::from_ymd_opt(year, month, day) is Some.
FromYmdOpt(year, month, day) ==
    /\ Signed(year) \in -262144..262143
    /\ Below(month, 13) /\ month[2] >= 1
    /\ Below(day, DaysInMonth(Signed(year), month[2]) + 1) /\ day[2] >= 1

\* NaiveTime::from_hms_milli_opt(hour, minute, second, millisecond) is Some.  A
\* millisecond of 1000..1999 stands for a leap second: chrono takes it at second
\* 59, and the versions before 0.4.31 at any second.
FromHmsMilliOpt(hour, minute, second, millisecond, chrono) ==
    /\ Below(hour, 24)
    /\ Below(minute, 60)
    /\ Below(second, 60)
    /\ Below(millisecond, 2000)
    /\ millisecond[2] >= 1000 => (second[2] = 59 \/ chrono = "any")

NoResult == [kind |-> "none"]

\* parse_timestamp.
ParseTimestamp(s, build, chrono) ==
    LET ps == ParseChars(StartOfParse, s, 1, build)
    IN IF ps.status = "panic" THEN [kind |-> "panic", overflow |-> TRUE]
       ELSE IF \/ ps.status = "bail"
               \/ ps.state \notin {"Second", "Millisecond"}
               \/ ~FromYmdOpt(ps.year, ps.month, ps.day)
               \/ ~FromHmsMilliOpt(ps.hour, ps.minute, ps.second,
                                   ps.millisecond, chrono)
       THEN [kind |-> "err", overflow |-> ps.overflow]
       ELSE [kind |-> "ok", overflow |-> ps.overflow,
             year |-> Signed(ps.year), month |-> ps.month[2], day |-> ps.day[2],
             hour |-> ps.hour[2], minute |-> ps.minute[2],
             second |-> ps.second[2], millisecond |-> ps.millisecond[2]]

\* A split that yields an empty second part when there is no c.
SplitN2Padded(s, c) ==
    IF \E i \in 1..Len(s) : s[i] = c
    THEN LET i == CHOOSE i \in 1..Len(s) : s[i] = c /\ \A j \in 1..(i - 1) : s[j] # c
         IN <<SubSeq(s, 1, i - 1), SubSeq(s, i + 1, Len(s))>>
    ELSE <<s, <<>>>>

\* str::splitn(2, c): the text before the first c and, if there is a c, the text
\* after it.
SplitN2(s, c) ==
    IF \E i \in 1..Len(s) : s[i] = c
    THEN LET i == CHOOSE i \in 1..Len(s) : s[i] = c /\ \A j \in 1..(i - 1) : s[j] # c
         IN <<SubSeq(s, 1, i - 1), SubSeq(s, i + 1, Len(s))>>
    ELSE <<s>>

\* str::trim_start_matches(c).
RECURSIVE TrimStartMatches(_, _)
TrimStartMatches(s, c) ==
    IF s # <<>> /\ s[1] = c THEN TrimStartMatches(Tail(s), c) ELSE s

\* str::trim.
RECURSIVE TrimStart(_)
TrimStart(s) == IF s # <<>> /\ IsWhitespace(s[1]) THEN TrimStart(Tail(s)) ELSE s

RECURSIVE TrimEnd(_)
TrimEnd(s) ==
    IF s # <<>> /\ IsWhitespace(s[Len(s)]) THEN TrimEnd(SubSeq(s, 1, Len(s) - 1))
    ELSE s

\* A trim that leaves the whitespace at the end.
TrimKeepsEnd(s) == TrimStart(s)

Trim(s) == TrimEnd(TrimStart(s))

\* ---- parse_timestamp_slow

\* The number of digits s begins with.
RECURSIVE LeadingDigits(_)
LeadingDigits(s) ==
    IF s # <<>> /\ IsDigit(s[1]) THEN 1 + LeadingDigits(Tail(s)) ELSE 0

\* The number of characters other than white space s begins with.
RECURSIVE LeadingNonSpace(_)
LeadingNonSpace(s) ==
    IF s # <<>> /\ ~IsWhitespace(s[1]) THEN 1 + LeadingNonSpace(Tail(s)) ELSE 0

\* The value of a run of at most nine digits.
RECURSIVE Value(_)
Value(ds) == IF ds = <<>> THEN 0
             ELSE Value(SubSeq(ds, 1, Len(ds) - 1)) * 10 + DigitVal(ds[Len(ds)])

\* A numeric item of a chrono format: at most max digits are taken.
Take(s, max) ==
    LET n == Min(LeadingDigits(s), max)
    IN [n |-> n, digits |-> SubSeq(s, 1, n), rest |-> SubSeq(s, n + 1, Len(s))]

\* A literal of the format.
Expect(s, c) == s # <<>> /\ s[1] = c

\* A fraction read as a count of nanoseconds, its digits right-aligned.
FractionNanosRightAligned(ds) == Value(SubSeq(ds, 1, Min(Len(ds), 9)))

\* %.f: the digits after the '.' are a fraction of a second, left-aligned; digits
\* after the ninth are dropped.
FractionNanos(ds) ==
    LET n == Min(Len(ds), 9)
    IN Value(SubSeq(ds, 1, n)) * Pow(10, 9 - n)

\* NaiveDateTime::parse_from_str(s, fmt) for the formats of parse_timestamp_slow:
\* "%Y-%m-%d %H:%M:%S", then "%.f" if fraction, then " %Z" if zone.  %m %d %H %M %S
\* take one or two digits, a space of the format any white space, %.f nothing or
\* a '.' with digits, %Z the characters up to the next white space; input left
\* over is an error.  A second of 60 is taken as a leap second.
ParseFromStr(s, fraction, zone) ==
    LET year == Take(s, Len(s))
        month == Take(Tail(year.rest), 2)
        day == Take(Tail(month.rest), 2)
        hour == Take(TrimStart(day.rest), 2)
        minute == Take(Tail(hour.rest), 2)
        second == Take(Tail(minute.rest), 2)
        dotted == fraction /\ Expect(second.rest, ".")
        frac == IF dotted THEN Take(Tail(second.rest), Len(second.rest))
                ELSE [n |-> 0, digits |-> <<>>, rest |-> second.rest]
        afterZone == IF zone
                     THEN LET t == TrimStart(frac.rest)
                          IN SubSeq(t, LeadingNonSpace(t) + 1, Len(t))
                     ELSE frac.rest
        scanned ==
            /\ year.n >= 1 /\ Expect(year.rest, "-")
            /\ month.n >= 1 /\ Expect(month.rest, "-")
            /\ day.n >= 1
            /\ hour.n >= 1 /\ Expect(hour.rest, ":")
            /\ minute.n >= 1 /\ Expect(minute.rest, ":")
            /\ second.n >= 1
            /\ dotted => frac.n >= 1
            /\ afterZone = <<>>
        inRange ==
            /\ year.n <= 6 /\ Value(year.digits) <= 262143
            /\ Value(month.digits) \in 1..12
            /\ Value(day.digits) \in
                  1..DaysInMonth(Value(year.digits), Value(month.digits))
            /\ Value(hour.digits) < 24
            /\ Value(minute.digits) < 60
            /\ Value(second.digits) <= 60
    IN IF scanned /\ inRange
       THEN [kind |-> "ok", overflow |-> FALSE,
             year |-> Value(year.digits), month |-> Value(month.digits),
             day |-> Value(day.digits), hour |-> Value(hour.digits),
             minute |-> Value(minute.digits),
             second |-> Min(Value(second.digits), 59),
             nanos |-> FractionNanos(frac.digits)
                       + (IF Value(second.digits) = 60 THEN 1000000000 ELSE 0)]
       ELSE [kind |-> "err", overflow |-> FALSE]

\* parse_timestamp_slow: the four formats in turn, the first that parses.
ParseTimestampSlow(s) ==
    LET first == ParseFromStr(s, TRUE, FALSE)
        second == ParseFromStr(s, FALSE, FALSE)
        third == ParseFromStr(s, TRUE, TRUE)
        fourth == ParseFromStr(s, FALSE, TRUE)
    IN IF first.kind = "ok" THEN first
       ELSE IF second.kind = "ok" THEN second
       ELSE IF third.kind = "ok" THEN third
       ELSE fourth

\* str::to_lowercase, for the letters of the model's inputs.
ToLowercase(s) ==
    [i \in 1..Len(s) |->
        IF \E k \in 1..26 : UpperChars[k] = s[i]
        THEN LowerChars[CHOOSE k \in 1..26 : UpperChars[k] = s[i]]
        ELSE s[i]]

\* str::replace('\n', " ").
ReplaceNewlines(s) == [i \in 1..Len(s) |-> IF s[i] = "\n" THEN " " ELSE s[i]]

\* parse_message_line.
ParseMessageLine(line, build, chrono) ==
    LET parts == SplitN2(line, "]")
        timestamp_str == TrimStartMatches(parts[1], "[")
    IN IF Len(parts) < 2 THEN [kind |-> "err", overflow |-> FALSE]
       ELSE LET username_and_message == SplitN2(parts[2], ":")
                username == ToLowercase(Trim(username_and_message[1]))
            IN IF Len(username_and_message) < 2
               THEN [kind |-> "err", overflow |-> FALSE]
               ELSE LET message == ReplaceNewlines(Trim(username_and_message[2]))
                        timestamp == ParseTimestamp(Trim(timestamp_str), build, chrono)
                    IN IF timestamp.kind # "ok" THEN timestamp
                       ELSE [kind |-> "ok", overflow |-> timestamp.overflow,
                             ts |-> timestamp, username |-> username,
                             text |-> message]

\* ---- the inputs of the model

\* A number below 100 as two digits, and one below 10000 as four.
D2(n) == <<DigitChars[(n \div 10) + 1], DigitChars[(n % 10) + 1]>>

D4(n) == D2(n \div 100) \o D2(n % 100)

Utc == <<" ", "U", "T", "C">>

\* "2021-08-03 17:40:27.313 UTC"
BaseInput ==
    [form |-> "full", year |-> D4(2021), month |-> D2(8), day |-> D2(3),
     hour |-> D2(17), minute |-> D2(40), second |-> D2(27),
     millisecond |-> <<"3", "1", "3">>, suffix |-> Utc]

\* Digit runs that do not fit 32 bits: the last is 2^32 + 8.
LongRuns == {<<"9", "9", "9", "9", "9", "9", "9", "9", "9", "9">>,
             <<"4", "2", "9", "4", "9", "6", "7", "3", "0", "4">>}

\* Text after the seconds or the milliseconds that is not the " UTC" suffix.
JunkSuffixes == {<<" ", "x">>, <<" ", "U", "T", "C", " ", "x">>, <<"\t", "1">>,
                 <<"x">>, <<"U", "T", "C">>}

TimestampInputs ==
    {[BaseInput EXCEPT !.year = D4(y), !.month = D2(m), !.day = D2(d)] :
        y \in {1900, 2000, 2020, 2021}, m \in {0, 2, 4, 12, 13},
        d \in {0, 28, 29, 30, 31, 32}}
    \cup
    {[BaseInput EXCEPT !.hour = D2(h), !.minute = D2(mi), !.second = D2(s),
                       !.millisecond = ms] :
        h \in {0, 23, 24}, mi \in {59, 60}, s \in {0, 59, 60, 68},
        ms \in {<<>>, <<"5">>, <<"3", "1">>, <<"0", "0", "0">>, <<"9", "9", "9">>,
                D4(1000), D4(1999), D4(2000)}}
    \cup
    {[BaseInput EXCEPT ![f] = r] :
        f \in {"year", "month", "day", "hour", "minute", "second", "millisecond"},
        r \in LongRuns}
    \cup
    {[BaseInput EXCEPT !.form = f, !.suffix = x] :
        f \in {"full", "T", "dateOnly", "timeOnly", "empty", "blank"},
        x \in {<<>>, Utc}}
    \cup
    {[BaseInput EXCEPT ![f] = <<>>] :
        f \in {"year", "month", "day", "hour", "minute", "second"}}
    \cup
    {[BaseInput EXCEPT !.millisecond = ms, !.suffix = x] :
        ms \in {<<>>, <<"3", "1", "3">>}, x \in JunkSuffixes}

\* The timestamp string of an input.
Render(in) ==
    LET date == in.year \o <<"-">> \o in.month \o <<"-">> \o in.day
        time == in.hour \o <<":">> \o in.minute \o <<":">> \o in.second
                \o (IF in.millisecond = <<>> THEN <<>>
                    ELSE <<".">> \o in.millisecond)
    IN CASE in.form = "full" -> date \o <<" ">> \o time \o in.suffix
         [] in.form = "T" -> date \o <<"T">> \o time \o in.suffix
         [] in.form = "dateOnly" -> date
         [] in.form = "timeOnly" -> time \o in.suffix
         [] in.form = "empty" -> <<>>
         [] in.form = "blank" -> <<" ">>

LineForms == {"plain", "spaced", "bare", "nested", "noBracket", "noColon"}

\* The line built around the timestamp string ts.
RenderLine(form, ts) ==
    CASE form = "plain" -> <<"[">> \o ts \o <<"]", " ", "j", "O", "h", "N", ":", " ", "H", "i">>
      [] form = "spaced" ->
            <<"[", " ", " ">> \o ts \o
            <<" ", "]", " ", "T", "e", " ", "C", "a", " ", ":", " ", "a", "\n", "b", " ">>
      [] form = "bare" -> <<"[">> \o ts \o <<"]", "u", ":">>
      [] form = "nested" ->
            <<"[", "[">> \o ts \o <<"]", " ", "A", "]", "b", ":", "c", ":", " ", "]", "\n">>
      [] form = "noBracket" -> <<"[">> \o ts \o <<" ", "u", ":", " ", "t">>
      [] form = "noColon" -> <<"[">> \o ts \o <<"]", " ", "u", " ", "t">>

\* A number in decimal digits.
RECURSIVE Decimal(_)
Decimal(n) == IF n < 10 THEN <<DigitChars[n + 1]>>
              ELSE Decimal(n \div 10) \o <<DigitChars[(n % 10) + 1]>>

\* DateTime<Utc>::format("%Y-%m-%d %H:%M:%S%.3f %Z"): a year outside 0..9999 is
\* written with its sign, a leap second as second 60.
FormatTimestamp(ts) ==
    LET year == IF ts.year >= 0 /\ ts.year <= 9999 THEN D4(ts.year)
                ELSE IF ts.year < 0 THEN <<"-">> \o Decimal(0 - ts.year)
                ELSE <<"+">> \o Decimal(ts.year)
        second == ts.second + (ts.millisecond \div 1000)
        milli == ts.millisecond % 1000
    IN year \o <<"-">> \o D2(ts.month) \o <<"-">> \o D2(ts.day) \o <<" ">>
       \o D2(ts.hour) \o <<":">> \o D2(ts.minute) \o <<":">> \o D2(second)
       \o <<".", DigitChars[(milli \div 100) + 1]>> \o D2(milli % 100) \o Utc

\* format!("[{}] {}: {}", d, msg.username, msg.text).
FormatLine(msg) ==
    <<"[">> \o FormatTimestamp(msg.ts) \o <<"]", " ">> \o msg.username
    \o <<":", " ">> \o msg.text

InitParser ==
    /\ pIn \in TimestampInputs
    /\ pLineForm \in LineForms
    /\ pBuild \in {"debug", "release"}
    /\ pChrono \in {"59", "any"}
    /\ pPc = "start"
    /\ pTs = NoResult
    /\ pMsg = NoResult
    /\ pSlow = NoResult
    /\ pWritten = <<>>
    /\ pAgain = NoResult

InitParserIdle ==
    InitParser /\ pIn = BaseInput /\ pLineForm = "plain" /\ pBuild = "release"
               /\ pChrono = "59"

\* A call of parse_timestamp on the timestamp string.
ParseTimestampCall ==
    /\ pPc = "start"
    /\ pTs' = ParseTimestamp(Render(pIn), pBuild, pChrono)
    /\ pPc' = "ts"
    /\ UNCHANGED <<pIn, pLineForm, pBuild, pChrono, pMsg, pSlow, pWritten, pAgain>>
    /\ UNCHANGED otherThanParser

\* A call of parse_message_line on the line.
ParseMessageLineCall ==
    /\ pPc = "ts"
    /\ pMsg' = ParseMessageLine(RenderLine(pLineForm, Render(pIn)), pBuild, pChrono)
    /\ pPc' = "line"
    /\ UNCHANGED <<pIn, pLineForm, pBuild, pChrono, pTs, pSlow, pWritten, pAgain>>
    /\ UNCHANGED otherThanParser

\* The record of parse_message_line is written as a line of a log file, and the
\* line is parsed.
WriteAndParseAgain ==
    /\ pPc = "line"
    /\ pMsg.kind = "ok"
    /\ pWritten' = FormatLine(pMsg)
    /\ pAgain' = ParseMessageLine(pWritten', pBuild, pChrono)
    /\ pPc' = "again"
    /\ UNCHANGED <<pIn, pLineForm, pBuild, pChrono, pTs, pMsg, pSlow>>
    /\ UNCHANGED otherThanParser

\* A call of parse_timestamp_slow on the timestamp string.
ParseTimestampSlowCall ==
    /\ pSlow = NoResult
    /\ pSlow' = ParseTimestampSlow(Render(pIn))
    /\ UNCHANGED <<pIn, pLineForm, pBuild, pChrono, pPc, pTs, pMsg, pWritten, pAgain>>
    /\ UNCHANGED otherThanParser

\* ---------------------------------------------------- SimpleMessage::normalize

\* The letter U+00DF, LATIN SMALL LETTER SHARP S: a lower-case letter whose upper
\* case is the two letters "SS".
SharpS == "U+00DF"

\* str::to_uppercase of one character.
UppercaseOf(c) ==
    IF c = SharpS THEN <<"S", "S">>
    ELSE IF \E k \in 1..26 : LowerChars[k] = c
    THEN <<UpperChars[CHOOSE k \in 1..26 : LowerChars[k] = c]>>
    ELSE <<c>>

\* voca_rs::case::capitalize(s, true): the first character in upper case, the rest
\* in lower case.
Capitalize(s) ==
    IF s = <<>> THEN <<>> ELSE UppercaseOf(s[1]) \o ToLowercase(Tail(s))

Normal(s) == [kind |-> "Normal", name |-> s]

\* SimpleMessage::normalize.
Normalize(m) ==
    LET username == IF m.username.kind = "Normal"
                    THEN Normal(ToLowercase(Trim(m.username.name)))
                    ELSE m.username
    IN [m EXCEPT !.channel = Capitalize(Trim(m.channel)),
                 !.username = username,
                 !.text = Trim(m.text)]

NChannels ==
    {<<" ", "x", "q", " ">>, <<"X", "q">>, <<"D", "G", "G">>, <<"A", "_", "s">>,
     <<SharpS, "a">>, <<>>}

NUsernames ==
    {Normal(<<" ", "J", "o", " ">>), Normal(<<"j", "o">>), Normal(<<"A", " ", "b">>),
     [kind |-> "System"], [kind |-> "Bits"]}

NTexts == {<<" ", "H", "i", " ", "\n">>, <<"a", "\n", "B">>, <<>>}

\* The messages given to normalize; the timestamp is in milliseconds.
SimpleMessages ==
    [id : {[some |-> FALSE], [some |-> TRUE, value |-> "id"]},
     channel : NChannels,
     timestamp : {0, 616},
     username : NUsernames,
     text : NTexts]

InitNormalize ==
    /\ nIn \in SimpleMessages
    /\ nPc = "start"
    /\ nOnce = NoResult
    /\ nTwice = NoResult

\* msg.normalize().
NormalizeCall ==
    /\ nPc = "start"
    /\ nOnce' = Normalize(nIn)
    /\ nPc' = "once"
    /\ UNCHANGED <<nIn, nTwice, oChannel, oLineForm, oPc, oParsed, oNormal, oIds>>
    /\ UNCHANGED otherThanNormalize

\* normalize() of the normalized message.
NormalizeAgainCall ==
    /\ nPc = "once"
    /\ nTwice' = Normalize(nOnce)
    /\ nPc' = "twice"
    /\ UNCHANGED <<nIn, nOnce, oChannel, oLineForm, oPc, oParsed, oNormal, oIds>>
    /\ UNCHANGED otherThanNormalize

\* ------------------------------------------------------------ OrlLog ids

\* A u32 is kept as its four bytes, the lowest first.
PRIME32_1 == <<177, 121, 55, 158>>

PRIME32_2 == <<119, 202, 235, 133>>

PRIME32_3 == <<61, 174, 178, 194>>

PRIME32_4 == <<47, 235, 212, 39>>

PRIME32_5 == <<177, 103, 86, 22>>

\* Wrapping addition and multiplication of two u32.
Add32(a, b) ==
    LET s1 == a[1] + b[1]
        s2 == a[2] + b[2] + (s1 \div 256)
        s3 == a[3] + b[3] + (s2 \div 256)
        s4 == a[4] + b[4] + (s3 \div 256)
    IN <<s1 % 256, s2 % 256, s3 % 256, s4 % 256>>

Mul32(a, b) ==
    LET c1 == a[1] * b[1]
        c2 == (a[1] * b[2]) + (a[2] * b[1]) + (c1 \div 256)
        c3 == (a[1] * b[3]) + (a[2] * b[2]) + (a[3] * b[1]) + (c2 \div 256)
        c4 == (a[1] * b[4]) + (a[2] * b[3]) + (a[3] * b[2]) + (a[4] * b[1])
              + (c3 \div 256)
    IN <<c1 % 256, c2 % 256, c3 % 256, c4 % 256>>

\* The 32 bits of a u32, the lowest at 0, and the u32 of 32 bits.
ToBits(a) == [i \in 0..31 |-> (a[(i \div 8) + 1] \div Pow(2, i % 8)) % 2]

ByteAt(bits, k) ==
    bits[8 * k] + (2 * bits[(8 * k) + 1]) + (4 * bits[(8 * k) + 2])
    + (8 * bits[(8 * k) + 3]) + (16 * bits[(8 * k) + 4]) + (32 * bits[(8 * k) + 5])
    + (64 * bits[(8 * k) + 6]) + (128 * bits[(8 * k) + 7])

FromBits(bits) == <<ByteAt(bits, 0), ByteAt(bits, 1), ByteAt(bits, 2), ByteAt(bits, 3)>>

\* u32::rotate_left, >> and ^.
Rotl32(a, r) ==
    LET bits == ToBits(a) IN FromBits([i \in 0..31 |-> bits[(i + 32 - r) % 32]])

Shr32(a, r) ==
    LET bits == ToBits(a)
    IN FromBits([i \in 0..31 |-> IF i + r < 32 THEN bits[i + r] ELSE 0])

Xor32(a, b) ==
    LET x == ToBits(a)
        y == ToBits(b)
    IN FromBits([i \in 0..31 |-> (x[i] + y[i]) % 2])

\* XXH32 with seed 0 of fewer than 16 bytes: the words of four bytes, then the
\* bytes that are left, then the avalanche.
RECURSIVE Consume(_, _)
Consume(h, bytes) ==
    IF Len(bytes) >= 4
    THEN Consume(Mul32(Rotl32(Add32(h, Mul32(SubSeq(bytes, 1, 4), PRIME32_3)), 17),
                       PRIME32_4),
                 SubSeq(bytes, 5, Len(bytes)))
    ELSE IF bytes # <<>>
    THEN Consume(Mul32(Rotl32(Add32(h, Mul32(<<bytes[1], 0, 0, 0>>, PRIME32_5)), 11),
                       PRIME32_1),
                 Tail(bytes))
    ELSE h

Avalanche(h) ==
    LET a == Mul32(Xor32(h, Shr32(h, 15)), PRIME32_2)
        b == Mul32(Xor32(a, Shr32(a, 13)), PRIME32_3)
    IN Xor32(b, Shr32(b, 16))

XXH32(bytes) == Avalanche(Consume(Add32(PRIME32_5, <<Len(bytes), 0, 0, 0>>), bytes))

\* The UTF-8 bytes of a character of the model's inputs.
ByteOf(c) ==
    IF c = SharpS THEN <<195, 159>>
    ELSE IF \E k \in 1..26 : UpperChars[k] = c
    THEN <<64 + (CHOOSE k \in 1..26 : UpperChars[k] = c)>>
    ELSE IF \E k \in 1..26 : LowerChars[k] = c
    THEN <<96 + (CHOOSE k \in 1..26 : LowerChars[k] = c)>>
    ELSE IF IsDigit(c) THEN <<48 + DigitVal(c)>>
    ELSE CASE c = " " -> <<32>>
           [] c = "\n" -> <<10>>
           [] c = "\t" -> <<9>>
           [] c = ":" -> <<58>>
           [] c = "[" -> <<91>>
           [] c = "]" -> <<93>>
           [] c = "_" -> <<95>>

RECURSIVE Utf8(_)
Utf8(s) == IF s = <<>> THEN <<>> ELSE ByteOf(s[1]) \o Utf8(Tail(s))

\* hash(&s): Hash for str writes the bytes of the string and the byte 0xff.
HashOf(s) == XXH32(Utf8(s) \o <<255>>)

HexChars == DigitChars \o <<"a", "b", "c", "d", "e", "f">>

\* squash_hash(s, 8): the hash as eight hex digits.
SquashHash(s) ==
    LET h == HashOf(s)
        hex(byte) == <<HexChars[(byte \div 16) + 1], HexChars[(byte % 16) + 1]>>
    IN hex(h[4]) \o hex(h[3]) \o hex(h[2]) \o hex(h[1])

\* The days from 1970-01-01 to the first day of year y, and to the first day of
\* month m of year y.
LeapYearsUpTo(y) == ((y \div 4) - (y \div 100)) + (y \div 400)

DaysBeforeYear(y) == (365 * (y - 1970)) + (LeapYearsUpTo(y - 1) - LeapYearsUpTo(1969))

RECURSIVE DaysBeforeMonth(_, _)
DaysBeforeMonth(y, m) ==
    IF m = 1 THEN DaysBeforeYear(y)
    ELSE DaysBeforeMonth(y, m - 1) + DaysInMonth(y, m - 1)

\* DateTime::timestamp_millis().to_string(), for an instant from 1970 to 2037: the
\* millisecond of a leap second is counted into the seconds.
TimestampMillis(ts) ==
    LET days == DaysBeforeMonth(ts.year, ts.month) + (ts.day - 1)
        seconds == (days * 86400) + (ts.hour * 3600) + (ts.minute * 60) + ts.second
                   + (ts.millisecond \div 1000)
        milli == ts.millisecond % 1000
    IN IF seconds = 0 THEN Decimal(milli)
       ELSE Decimal(seconds) \o <<DigitChars[(milli \div 100) + 1]>> \o D2(milli % 100)

\* OrlLog::from_raw.
FromRaw(raw, channel) ==
    [ts |-> raw.ts, username |-> raw.username, text |-> raw.text, channel |-> channel]

\* OrlLog<Raw>::normalize.
OrlNormalize(log) ==
    [ts |-> log.ts,
     username |-> ToLowercase(log.username),
     text |-> ReplaceNewlines(Trim(log.text)),
     channel |-> Capitalize(Trim(log.channel))]

\* OrlLog<Clean>::get_id.
GetId(log) ==
    TimestampMillis(log.ts) \o <<"-">> \o SquashHash(log.channel) \o <<"-">>
    \o SquashHash(log.username) \o <<"-">> \o SquashHash(log.text)

\* parse_orl_log, in a release build; the timestamp of the line is BaseInput.
ParseOrlLog(channel, line) ==
    LET message == ParseMessageLine(line, "release", "59")
    IN IF message.kind # "ok" THEN message
       ELSE [kind |-> "ok", username |-> message.username, text |-> message.text,
             ts |-> message.ts, channel |-> channel]

InitOrl ==
    /\ oChannel \in NChannels
    /\ oLineForm \in LineForms
    /\ oPc = "start"
    /\ oParsed = NoResult
    /\ oNormal = NoResult
    /\ oIds = NoResult

InitSimpleMessageIdle ==
    /\ InitNormalize
    /\ nIn = [id |-> [some |-> FALSE], channel |-> <<>>, timestamp |-> 0,
              username |-> [kind |-> "System"], text |-> <<>>]

InitOrlIdle == InitOrl /\ oChannel = <<>> /\ oLineForm = "plain"

InitNormalizeIdle == InitSimpleMessageIdle /\ InitOrlIdle

\* parse_orl_log(channel, line) for a line of a file of the channel's directory.
ParseOrlLogCall ==
    /\ oPc = "start"
    /\ oParsed' = ParseOrlLog(oChannel, RenderLine(oLineForm, Render(BaseInput)))
    /\ oPc' = "parsed"
    /\ UNCHANGED <<nIn, nPc, nOnce, nTwice, oChannel, oLineForm, oNormal, oIds>>
    /\ UNCHANGED otherThanNormalize

\* OrlLog::from_raw(raw, channel).normalize() for the fields of the parsed line.
OrlNormalizeCall ==
    /\ oPc = "parsed"
    /\ oParsed.kind = "ok"
    /\ oNormal' = OrlNormalize(FromRaw(oParsed, oChannel))
    /\ oPc' = "built"
    /\ UNCHANGED <<nIn, nPc, nOnce, nTwice, oChannel, oLineForm, oParsed, oIds>>
    /\ UNCHANGED otherThanNormalize

\* get_id() of the two records.
GetIdCall ==
    /\ oPc = "built"
    /\ oIds' = [kind |-> "ok", parsed |-> GetId(oParsed), normal |-> GetId(oNormal)]
    /\ oPc' = "ids"
    /\ UNCHANGED <<nIn, nPc, nOnce, nTwice, oChannel, oLineForm, oParsed, oNormal>>
    /\ UNCHANGED otherThanNormalize

\* ----------------------------------------------------------------------- main

Subcommands ==
    {"Scrape", "DirToClickhouse", "FileToClickhouse", "DirToElasticsearch",
     "DirToSqlite", "DirToJsonl", "JsonlToConsole", "JsonlToElasticsearch",
     "JsonlToClickhouse"}

\* The info! lines of a subcommand's arm before its run.
InfoLines(cmd) ==
    CASE cmd = "Scrape" -> <<>>
      [] cmd = "DirToClickhouse" -> <<"Directory", "Clickhouse Url">>
      [] cmd = "FileToClickhouse" -> <<"Input Files", "Clickhouse Url">>
      [] cmd = "DirToElasticsearch" -> <<"Directory", "Elasticsearch Url", "Index">>
      [] cmd = "DirToSqlite" -> <<"Directory">>
      [] cmd = "DirToJsonl" -> <<"Directory", "Output directory">>
      [] cmd = "JsonlToConsole" -> <<"Directory">>
      [] cmd = "JsonlToElasticsearch" ->
            <<"Directory", "Elasticsearch Url", "Elasticsearch Index">>
      [] cmd = "JsonlToClickhouse" -> <<"Directory", "Clickhouse Url">>

\* The filters of the model, and whether a filter lets a level through.
LogFilters == {"info", "error", "off"}

Enabled(filter, level) ==
    \/ filter = "info"
    \/ filter = "error" /\ level = "error"

InitMain ==
    /\ mCmd \in Subcommands
    /\ mFilter \in LogFilters
    /\ mPc = "start"
    /\ mResult = "none"
    /\ mLog = <<>>
    /\ mExit = -1

InitMainIdle == InitMain /\ mCmd = "Scrape" /\ mFilter = "info"

\* Opt::parse(): clap ends the process with status 2 when the arguments of the
\* subcommand are not valid.
MainParse ==
    /\ mPc = "start"
    /\ \E valid \in BOOLEAN :
          IF valid THEN mPc' = "parsed" /\ mExit' = mExit
          ELSE mPc' = "exited" /\ mExit' = 2
    /\ UNCHANGED <<mCmd, mFilter, mResult, mLog>>
    /\ UNCHANGED otherThanMain

\* The logger is set up and the arm of the subcommand logs its arguments.
MainLogArguments ==
    /\ mPc = "parsed"
    /\ mLog' = IF Enabled(mFilter, "info")
               THEN [i \in 1..Len(InfoLines(mCmd)) |-> <<"info", InfoLines(mCmd)[i]>>]
               ELSE <<>>
    /\ mPc' = "run"
    /\ UNCHANGED <<mCmd, mFilter, mResult, mExit>>
    /\ UNCHANGED otherThanMain

\* The run of the subcommand returns.
MainRun ==
    /\ mPc = "run"
    /\ mResult' \in {"ok", "err"}
    /\ mPc' = "returned"
    /\ UNCHANGED <<mCmd, mFilter, mLog, mExit>>
    /\ UNCHANGED otherThanMain

\* if let Err(e) = ... { error!("{:?}", e) }, and the end of main: main returns
\* (), and the status of the process is 0.
MainReturn ==
    /\ mPc = "returned"
    /\ mLog' = IF mResult = "err" /\ Enabled(mFilter, "error")
               THEN Append(mLog, <<"error", mCmd>>)
               ELSE mLog
    /\ mExit' = 0
    /\ mPc' = "exited"
    /\ UNCHANGED <<mCmd, mFilter, mResult>>
    /\ UNCHANGED otherThanMain

\* -------------------------------------------------------------- JsonFileSource

\* The files of the directory and the records of a file in the model.
MaxJsonFiles == 3

MaxJsonRecords == 2

\* try_chunks(30) groups the contents of 30 files; the model scales it down so that
\* MaxJsonFiles files make more than one chunk.
JsonChunkFiles == 2

\* A line of a JSON-lines file: one that serde_json::from_str decodes as an
\* OrlLog1_0, or one that it does not.
JsonLines == {"ok", "bad"}

JsonFilesOf(n) ==
    UNION {[1..n -> UNION {[1..k -> JsonLines] : k \in 0..MaxJsonRecords}]}

\* The lines of the chunk ch, as <<file, place>>.
LinesOf(ch) ==
    {r \in (1..MaxJsonFiles) \X (1..MaxJsonRecords) :
        r[1] \in ch /\ r[2] <= Len(jFiles[r[1]])}

\* parse_jsonl_line: Some(serde_json::from_str(line).unwrap_or_else(|_| panic!(..))).
ParseJsonlLine(r) ==
    IF jFiles[r[1]][r[2]] = "ok" THEN "some" ELSE "panic"

InitJson ==
    /\ jFiles \in UNION {JsonFilesOf(n) : n \in 1..MaxJsonFiles}
    /\ jRead = 0
    /\ jPending = {}
    /\ jDelivered = {}
    /\ jPc = "run"

\* An empty directory.
InitJsonIdle ==
    /\ jFiles = <<>>
    /\ jRead = 0
    /\ jPending = {}
    /\ jDelivered = {}
    /\ jPc = "run"

\* create_orl_log_stream: the contents of the next files (up to 30) are read and
\* make a chunk.
JsonReadChunk ==
    /\ jPc = "run"
    /\ jRead < Len(jFiles)
    /\ LET n == IF Len(jFiles) - jRead < JsonChunkFiles
                THEN Len(jFiles) - jRead ELSE JsonChunkFiles
       IN /\ jPending' = jPending \cup {(jRead + 1)..(jRead + n)}
          /\ jRead' = jRead + n
    /\ UNCHANGED <<jFiles, jDelivered, jPc>>
    /\ UNCHANGED otherThanJson

\* The closure of try_map_blocking for one chunk: parse_contents_to_logs on the
\* joined contents.  filter_map(parse_jsonl_line) panics at a line that does not
\* decode; the panic leaves collect() without a Vec, so no record of the chunk is
\* yielded, and the stream either resumes the panic in its consumer or ends.
JsonParseChunk ==
    /\ jPc = "run"
    /\ \E ch \in jPending :
          /\ jPending' = jPending \ {ch}
          /\ IF \E r \in LinesOf(ch) : ParseJsonlLine(r) = "panic"
             THEN /\ jPc' \in {"panicked", "done"}
                  /\ jDelivered' = jDelivered
             ELSE /\ jPc' = jPc
                  /\ jDelivered' = jDelivered \cup
                                     {r \in LinesOf(ch) : ParseJsonlLine(r) = "some"}
    /\ UNCHANGED <<jFiles, jRead>>
    /\ UNCHANGED otherThanJson

\* Every file was read and every chunk parsed: the stream ends.
JsonEnd ==
    /\ jPc = "run"
    /\ jRead = Len(jFiles)
    /\ jPending = {}
    /\ jPc' = "done"
    /\ UNCHANGED <<jFiles, jRead, jPending, jDelivered>>
    /\ UNCHANGED otherThanJson

\* --------------------------------------------------- Elasticsearch bulk paths

\* The dates of the model: the months and years on the two sides of a year's end,
\* and of the year 9999's end.
IndexYears == {2020, 2021, 9999, 10000}

IndexMonths == {1, 2, 12}

IndexDays == {1, 28}

IndexDates == [year : IndexYears, month : IndexMonths, day : IndexDays]

\* opts.index_base_name, or the index given to write_elastic_chunk.
IndexBase == <<"o", "r", "l">>

\* DateTime<Utc>::to_rfc3339_opts(SecondsFormat::Millis, true) of midnight of the
\* date: chrono writes a year of 0..9999 with four digits and any other year with
\* its sign ("{:+05}").
ToRfc3339(date) ==
    LET year == IF date.year >= 0 /\ date.year <= 9999 THEN D4(date.year)
                ELSE <<"+">> \o Decimal(date.year)
    IN year \o <<"-">> \o D2(date.month) \o <<"-">> \o D2(date.day)
       \o <<"T", "0", "0", ":", "0", "0", ":", "0", "0", ".", "0", "0", "0", "Z">>

\* index + "-" + ts[..7] + "-01".
IndexWithDate(date) ==
    IndexBase \o <<"-">> \o SubSeq(ToRfc3339(date), 1, 7) \o <<"-", "0", "1">>

InitIndex ==
    /\ iMsgs \in [1..2 -> IndexDates]
    /\ iPath \in {"sink", "script"}
    /\ iPc = "start"
    /\ iIndex = <<>>

InitIndexIdle ==
    /\ iMsgs = [k \in 1..2 |-> [year |-> 2021, month |-> 1, day |-> 1]]
    /\ iPath = "sink"
    /\ iPc = "start"
    /\ iIndex = <<>>

\* write_batch of ElasticsearchBulkSink: add_log_to_payload for each log of the
\* batch.
AddLogsToPayload ==
    /\ iPc = "start"
    /\ iPath = "sink"
    /\ iIndex' = [k \in 1..2 |-> IndexWithDate(iMsgs[k])]
    /\ iPc' = "named"
    /\ UNCHANGED <<iMsgs, iPath>>
    /\ UNCHANGED otherThanIndex

\* write_elastic_chunk: the action line of each message of the chunk.
WriteElasticChunk ==
    /\ iPc = "start"
    /\ iPath = "script"
    /\ iIndex' = [k \in 1..2 |-> IndexWithDate(iMsgs[k])]
    /\ iPc' = "named"
    /\ UNCHANGED <<iMsgs, iPath>>
    /\ UNCHANGED otherThanIndex

\* ---------------------------------------------------------------- split_insert

\* The longest chunk and the most inserters of the model (the commands create 10
\* inserters and chunks of up to STREAM_CHUNK_SIZE messages).
MaxChunkLen == 5

MaxInserters == 3

\* (messages.len() / inserters.len()).max(1).
ChunkSize(len, count) == Max(len \div count, 1)

\* messages.chunks(chunk_size): the number of chunks, and the messages of the
\* k-th chunk.
ChunkCount(len, count) ==
    (len + ChunkSize(len, count) - 1) \div ChunkSize(len, count)

MessageChunk(len, count, k) ==
    [j \in 1..(Min(k * ChunkSize(len, count), len) - (k - 1) * ChunkSize(len, count))
        |-> (k - 1) * ChunkSize(len, count) + j]

\* try_join_all(futures).await? over the JoinHandles: it fails with a JoinError,
\* when a task panicked or was cancelled; what a task returned is an element of
\* the Vec that is dropped.  insert_messages does not panic.
JoinResult(tasks) == "ok"

InitSplit ==
    /\ sLen \in 0..MaxChunkLen
    /\ sCount \in 1..MaxInserters
    /\ sPc = "start"
    /\ sTask = [i \in 1..sCount |-> "none"]
    /\ sRows = [i \in 1..sCount |-> <<>>]
    /\ sResult = "none"
    /\ sCaller = "running"

InitSplitIdle == InitSplit /\ sLen = 0 /\ sCount = 1

\* split_insert up to try_join_all: zip(inserters, message_chunks) spawns one
\* insert_messages task for each pair.
SplitInsertSpawn ==
    /\ sPc = "start"
    /\ sTask' = [i \in 1..sCount |->
                   IF i <= ChunkCount(sLen, sCount) THEN "spawned" ELSE "none"]
    /\ sPc' = "join"
    /\ UNCHANGED <<sLen, sCount, sRows, sResult, sCaller>>
    /\ UNCHANGED otherThanSplit

\* The task insert_messages(inserter, chunk) of inserter i: it writes the messages
\* of its chunk one by one and commits; the first write that fails, or the commit,
\* ends it with an error.
InsertMessages(i) ==
    /\ sPc = "join"
    /\ sTask[i] = "spawned"
    /\ LET chunk == MessageChunk(sLen, sCount, i)
       IN \E k \in 0..Len(chunk), commitOk \in BOOLEAN :
             /\ sRows' = [sRows EXCEPT ![i] = SubSeq(chunk, 1, k)]
             /\ sTask' = [sTask EXCEPT ![i] =
                            IF k = Len(chunk) /\ commitOk THEN "ok" ELSE "err"]
    /\ UNCHANGED <<sLen, sCount, sPc, sResult, sCaller>>
    /\ UNCHANGED otherThanSplit

\* try_join_all(futures).await? once every task has ended, and the return of
\* split_insert.
SplitInsertJoin ==
    /\ sPc = "join"
    /\ \A i \in 1..sCount : sTask[i] # "spawned"
    /\ sResult' = JoinResult(sTask)
    /\ sPc' = "returned"
    /\ UNCHANGED <<sLen, sCount, sTask, sRows, sCaller>>
    /\ UNCHANGED otherThanSplit

\* `split_insert(&inserters, chunk).await?` in dir_to_clickhouse and
\* files_to_clickhouse: an error ends the command, Ok goes on to the next chunk.
SplitInsertCaller ==
    /\ sPc = "returned"
    /\ sCaller' = IF sResult = "err" THEN "stopped" ELSE "continued"
    /\ sPc' = "done"
    /\ UNCHANGED <<sLen, sCount, sTask, sRows, sResult>>
    /\ UNCHANGED otherThanSplit

\* ---------------------------------------------------------- ClickhouseBulkSink

\* The chunks of the longest input stream of the model.
MaxBulkChunks == 5

\* WORKER_COUNT is 10 and QUEUED_LIMIT is 4 in the source; the model scales them
\* down so that MaxBulkChunks chunks fill the channel with every worker gone.
WORKER_COUNT == 2

QUEUED_LIMIT == 1

BulkWorkers == 1..WORKER_COUNT

\* The rows of chunk k.
RowsOf(k) == k

\* The receivers run itself holds: `receiver` is cloned for each worker and the
\* original stays in scope until run returns.
RunReceivers == 1

\* The receivers alive: those of the workers that have not returned, and run's.
Receivers == RunReceivers + Cardinality({w \in BulkWorkers : bWorker[w] \in {"recv", "write"}})

\* A recv that leaves the chunk in the channel for the other receivers (a
\* broadcast).
RecvBroadcast(q) == [chunk |-> Head(q), rest |-> q]

\* async_channel Receiver::recv: the oldest chunk leaves the channel and goes to
\* the one receiver that called.
Recv(q) == [chunk |-> Head(q), rest |-> Tail(q)]

InitBulk ==
    /\ bTotal \in 0..MaxBulkChunks
    /\ bNext = 0
    /\ bHeld = 0
    /\ bChan = <<>>
    /\ bClosed = FALSE
    /\ bWorker = [w \in BulkWorkers |-> "recv"]
    /\ bHolding = [w \in BulkWorkers |-> 0]
    /\ bWritten = [w \in BulkWorkers |-> <<>>]
    /\ bCount = 0
    /\ bPc = "next"
    /\ bResult = "none"

InitBulkIdle == InitBulk /\ bTotal = 0

\* chunked_stream.try_next().await?: the next chunk, an error of the stream (run
\* returns it), or the end of the stream, after which run closes the channel.
BulkRunTryNext ==
    /\ bPc = "next"
    /\ IF bNext < bTotal
       THEN \E ok \in BOOLEAN :
               IF ok
               THEN /\ bNext' = bNext + 1
                    /\ bHeld' = bNext + 1
                    /\ bPc' = "send"
                    /\ UNCHANGED <<bClosed, bResult>>
               ELSE /\ bPc' = "returned"
                    /\ bResult' = "err"
                    /\ UNCHANGED <<bNext, bHeld, bClosed>>
       ELSE /\ bClosed' = TRUE
            /\ bPc' = "join"
            /\ UNCHANGED <<bNext, bHeld, bResult>>
    /\ UNCHANGED <<bTotal, bChan, bWorker, bHolding, bWritten, bCount>>
    /\ UNCHANGED otherThanBulk

\* sender.send(chunk).await?: it waits while the channel is full and fails when
\* no receiver is left.
BulkRunSend ==
    /\ bPc = "send"
    /\ IF Receivers = 0
       THEN /\ bPc' = "returned"
            /\ bResult' = "err"
            /\ UNCHANGED bChan
       ELSE /\ Len(bChan) < QUEUED_LIMIT
            /\ bChan' = Append(bChan, bHeld)
            /\ bPc' = "next"
            /\ UNCHANGED bResult
    /\ bHeld' = 0
    /\ UNCHANGED <<bTotal, bNext, bClosed, bWorker, bHolding, bWritten, bCount>>
    /\ UNCHANGED otherThanBulk

\* receiver.recv().await of worker w: a chunk, or an error when the channel is
\* closed and empty, which ends the worker's loop with Ok.
BulkWorkerRecv(w) ==
    /\ bWorker[w] = "recv"
    /\ IF bChan # <<>>
       THEN /\ bHolding' = [bHolding EXCEPT ![w] = Recv(bChan).chunk]
            /\ bChan' = Recv(bChan).rest
            /\ bWorker' = [bWorker EXCEPT ![w] = "write"]
       ELSE /\ bClosed
            /\ bWorker' = [bWorker EXCEPT ![w] = "ok"]
            /\ UNCHANGED <<bHolding, bChan>>
    /\ UNCHANGED <<bTotal, bNext, bHeld, bClosed, bWritten, bCount, bPc, bResult>>
    /\ UNCHANGED otherThanBulk

\* worker.write_batch(batch) of worker w: Ok adds the rows to count and the loop
\* goes on; an error is logged and ends the task, which drops its receiver.
BulkWorkerWriteBatch(w) ==
    /\ bWorker[w] = "write"
    /\ \E ok \in BOOLEAN :
          IF ok
          THEN /\ bWritten' = [bWritten EXCEPT ![w] = Append(@, bHolding[w])]
               /\ bCount' = bCount + RowsOf(bHolding[w])
               /\ bWorker' = [bWorker EXCEPT ![w] = "recv"]
          ELSE /\ bWorker' = [bWorker EXCEPT ![w] = "err"]
               /\ UNCHANGED <<bWritten, bCount>>
    /\ bHolding' = [bHolding EXCEPT ![w] = 0]
    /\ UNCHANGED <<bTotal, bNext, bHeld, bChan, bClosed, bPc, bResult>>
    /\ UNCHANGED otherThanBulk

\* join_all(worker_join).await, once every worker task has ended; run logs the
\* total and returns Ok whatever the workers returned.
BulkRunJoin ==
    /\ bPc = "join"
    /\ \A w \in BulkWorkers : bWorker[w] \in {"ok", "err"}
    /\ bPc' = "returned"
    /\ bResult' = "ok"
    /\ UNCHANGED <<bTotal, bNext, bHeld, bChan, bClosed, bWorker, bHolding,
                   bWritten, bCount>>
    /\ UNCHANGED otherThanBulk

\* ------------------------------------------------------------ specifications

\* The dispatcher's specifications leave the Elasticsearch worker of SpecES idle,
\* in its initial state under one configuration.
InitSinks == InitFile /\ InitUsername /\ uBatch = 1

InitScraper == InitDgg /\ backoff_max = 360 /\ use_get_key = FALSE

\* The sources and scripts of the bulk commands, idle.
InitScriptsIdle == InitJsonIdle /\ InitIndexIdle /\ InitSplitIdle /\ InitBulkIdle

InitRest ==
    /\ InitSinks /\ InitScraper /\ InitParserIdle /\ InitNormalizeIdle /\ InitMainIdle
    /\ InitScriptsIdle

Init == InitDispatch /\ InitES /\ InitRest /\ max_retry_seconds = 360

Next ==
    \/ ScraperSend
    \/ Dispatch
    \/ \E i \in Writers : WorkerRecv(i)
    \/ \E i \in Writers : UsernameWorkerInit(i)
    \/ \E i \in Writers : ElasticWorkerFail(i)
    \/ \E i \in Writers : ElasticWorkerWake(i)

Spec == Init /\ [][Next]_vars

\* The dispatcher is a task of its own that write() never suspends: it runs
\* whenever an event is in its channel.  Nothing is assumed of the sink workers.
SpecLive == Spec /\ WF_vars(Dispatch)

ESWorker ==
    \/ ESInitialize
    \/ ESRecv
    \/ ESRecvClosed
    \/ ESProcess
    \/ ESWake

NextES ==
    \/ ESSend
    \/ ESCloseTx
    \/ ESInitialize
    \/ ESRecv
    \/ ESRecvClosed
    \/ ESProcess
    \/ ESWake

\* The worker's specifications run it under every configuration of MaxRetryChoices
\* and leave the dispatcher idle.
InitWorker == InitDispatch /\ InitES /\ InitRest

SpecES == InitWorker /\ [][NextES]_vars

\* The worker is a spawned task: it runs whenever it has a step to take.
SpecESFair == SpecES /\ WF_vars(ESWorker)

NextFile ==
    \/ FileSend
    \/ FileRecv
    \/ FileWriteToFile
    \/ FileTick

SpecFile == Init /\ [][NextFile]_vars

FileWorker ==
    \/ FileRecv
    \/ FileWriteToFile

\* The worker is a spawned task: it runs whenever it has a step to take; and time
\* passes.  Nothing is assumed of the senders: no further message need arrive.
SpecFileFair == SpecFile /\ WF_vars(FileWorker) /\ WF_vars(FileTick)

NextUsername ==
    \/ UsernameInit
    \/ UsernameHandle

InitUsernameSpec ==
    /\ InitDispatch /\ InitES /\ max_retry_seconds = 360
    /\ InitFile /\ InitUsername /\ InitScraper /\ InitParserIdle
    /\ InitNormalizeIdle /\ InitMainIdle
    /\ InitScriptsIdle

SpecUsername == InitUsernameSpec /\ [][NextUsername]_vars

NextDgg ==
    \/ DggLoop
    \/ DggConnect
    \/ DggText
    \/ DggPong
    \/ DggClose
    \/ DggReadError
    \/ DggPingTick
    \/ DggCheckTick

InitDggSpec ==
    /\ InitDispatch /\ InitES /\ max_retry_seconds = 360
    /\ InitSinks /\ InitDgg /\ InitParserIdle
    /\ InitNormalizeIdle /\ InitMainIdle
    /\ InitScriptsIdle

SpecDgg == InitDggSpec /\ [][NextDgg]_vars

NextParser ==
    \/ ParseTimestampCall
    \/ ParseMessageLineCall
    \/ WriteAndParseAgain
    \/ ParseTimestampSlowCall

InitParserSpec ==
    /\ InitDispatch /\ InitES /\ max_retry_seconds = 360
    /\ InitSinks /\ InitScraper /\ InitParser
    /\ InitNormalizeIdle /\ InitMainIdle
    /\ InitScriptsIdle

SpecParser == InitParserSpec /\ [][NextParser]_vars

\* The rest of the program idle, for the specifications of normalize,
\* of the ORL ids and of main.
InitOthersIdle ==
    /\ InitDispatch /\ InitES /\ max_retry_seconds = 360
    /\ InitSinks /\ InitScraper /\ InitParserIdle

NextNormalize ==
    \/ NormalizeCall
    \/ NormalizeAgainCall

InitNormalizeSpec ==
    /\ InitOthersIdle /\ InitMainIdle
    /\ InitNormalize
    /\ InitOrlIdle
    /\ InitScriptsIdle

SpecNormalize == InitNormalizeSpec /\ [][NextNormalize]_vars

NextOrl ==
    \/ ParseOrlLogCall
    \/ OrlNormalizeCall
    \/ GetIdCall

InitOrlSpec ==
    /\ InitOthersIdle /\ InitMainIdle
    /\ InitSimpleMessageIdle
    /\ InitOrl
    /\ InitScriptsIdle

SpecOrl == InitOrlSpec /\ [][NextOrl]_vars

NextMain ==
    \/ MainParse
    \/ MainLogArguments
    \/ MainRun
    \/ MainReturn

InitMainSpec == InitOthersIdle /\ InitNormalizeIdle /\ InitMain /\ InitScriptsIdle

SpecMain == InitMainSpec /\ [][NextMain]_vars

\* The whole of the ingester idle, for the specifications of the bulk commands.
InitIngesterIdle == InitOthersIdle /\ InitNormalizeIdle /\ InitMainIdle

NextJson ==
    \/ JsonReadChunk
    \/ JsonParseChunk
    \/ JsonEnd

InitJsonSpec == InitIngesterIdle /\ InitJson /\ InitIndexIdle /\ InitSplitIdle /\ InitBulkIdle

SpecJson == InitJsonSpec /\ [][NextJson]_vars

NextIndex ==
    \/ AddLogsToPayload
    \/ WriteElasticChunk

InitIndexSpec == InitIngesterIdle /\ InitJsonIdle /\ InitIndex /\ InitSplitIdle /\ InitBulkIdle

SpecIndex == InitIndexSpec /\ [][NextIndex]_vars

NextSplit ==
    \/ SplitInsertSpawn
    \/ \E i \in 1..sCount : InsertMessages(i)
    \/ SplitInsertJoin
    \/ SplitInsertCaller

InitSplitSpec == InitIngesterIdle /\ InitJsonIdle /\ InitIndexIdle /\ InitSplit /\ InitBulkIdle

SpecSplit == InitSplitSpec /\ [][NextSplit]_vars

BulkRun ==
    \/ BulkRunTryNext
    \/ BulkRunSend
    \/ BulkRunJoin

BulkWorker(w) ==
    \/ BulkWorkerRecv(w)
    \/ BulkWorkerWriteBatch(w)

NextBulk ==
    \/ BulkRunTryNext
    \/ BulkRunSend
    \/ BulkRunJoin
    \/ \E w \in BulkWorkers : BulkWorkerRecv(w)
    \/ \E w \in BulkWorkers : BulkWorkerWriteBatch(w)

InitBulkSpec ==
    InitIngesterIdle /\ InitJsonIdle /\ InitIndexIdle /\ InitSplitIdle /\ InitBulk

SpecBulk == InitBulkSpec /\ [][NextBulk]_vars

\* run and the worker tasks are tasks of the runtime: each runs whenever it has a
\* step to take.
SpecBulkFair ==
    SpecBulk /\ WF_vars(BulkRun) /\ \A w \in BulkWorkers : WF_vars(BulkWorker(w))

\* ------------------------------------------------------------------ claims

\* A step of the dispatcher: it has received one more event.
DispatchStep == Len(dispatched') = Len(dispatched) + 1

EventIds(evs) == [k \in DOMAIN evs |-> evs[k].id]

\* The place of event id among the events the dispatcher received.
Pos(id) == CHOOSE k \in DOMAIN dispatched : dispatched[k].id = id

\* C1: in the dispatch loop every event received from the event channel results in
\* exactly one write call on each writer that is Some at that moment and in no
\* write call on a writer that is None; write is called nowhere else.
C1_OneWritePerActiveWriter ==
    [][/\ DispatchStep =>
            \A i \in Writers :
                writeLog'[i] = IF writers[i]
                               THEN Append(writeLog[i], Head(eventChan).id)
                               ELSE writeLog[i]
       /\ ~DispatchStep => writeLog' = writeLog]_vars

\* C1 witness: a writer was quarantined at some event, later events were
\* dispatched without a write to it, and another writer got every event.
C1_Witness ==
    \E i, j \in Writers :
        /\ ~writers[i] /\ failedAt[i] > 0 /\ failedAt[i] < Len(dispatched)
        /\ Len(writeLog[i]) = failedAt[i]
        /\ writers[j] /\ Len(writeLog[j]) = Len(dispatched)

\* C2: a writer whose write returned an error is None from the end of that loop
\* iteration on, is never written to again and never becomes Some again, while
\* every other writer is written the same event and all later ones.
C2_QuarantineIsolated ==
    /\ [](\A i \in Writers :
            /\ writers[i] => failedAt[i] = 0 /\ writeLog[i] = EventIds(dispatched)
            /\ ~writers[i] =>
                 /\ failedAt[i] \in 1..Len(dispatched)
                 /\ writeLog[i] = EventIds(SubSeq(dispatched, 1, failedAt[i])))
    /\ [][\A i \in Writers :
            /\ ~writers[i] => ~writers'[i]
            /\ (DispatchStep /\ writers[i] /\ ~rxOpen[i]
                    /\ Sends(i, Head(eventChan)) # <<>>)
                 => ~writers'[i] /\ failedAt'[i] = Len(dispatched')]_vars

\* C2 witness: three events dispatched, one writer failed on its first write and
\* was written once, the two others are active and were written three times.
C2_Witness ==
    \E i \in Writers :
        /\ ~writers[i] /\ failedAt[i] = 1 /\ Len(writeLog[i]) = 1
        /\ Len(dispatched) = 3
        /\ \A j \in Writers \ {i} : writers[j] /\ Len(writeLog[j]) = 3

\* Item x reached the dispatcher before item y (parts of one event in their order
\* in the event's message group).
Before(x, y) ==
    \/ Pos(x.ev) < Pos(y.ev)
    \/ Pos(x.ev) = Pos(y.ev) /\ x.part < y.part

\* C3: what a sink worker receives from its channel is in the order in which the
\* dispatcher received the events; nothing is reordered or duplicated.
C3_PerSinkFifo ==
    \A i \in Writers :
        \A a, b \in DOMAIN received[i] :
            a < b => Before(received[i][a], received[i][b])

\* C3 witness: a worker has received items of three different events.
C3_Witness ==
    \E i \in Writers :
        /\ Len(received[i]) >= 3
        /\ Cardinality({received[i][k].ev : k \in DOMAIN received[i]}) = 3

\* C4: every event a scraper sends is eventually handled by the dispatcher and
\* written to every writer that stays active, whatever the sink workers do (they
\* are given no fairness: they may fail, sleep or stall for ever).
C4_DispatcherNeverBlocked ==
    \A n \in 1..MaxEvents :
        (nextId >= n) ~>
            (/\ Len(dispatched) >= n
             /\ \A j \in Writers : writers[j] => n \in {writeLog[j][k] : k \in DOMAIN writeLog[j]})

\* C4 witness: the Elasticsearch worker sleeps in back-off with a backlog in its
\* channel while the last event has been written to the file sink.
C4_Witness ==
    /\ wpc[1] = "sleep"
    /\ Len(sinkChan[1]) >= 2
    /\ Len(dispatched) = MaxEvents
    /\ Len(writeLog[2]) = MaxEvents

\* Number of times alert a was sent by work().
AlertCount(a) == Cardinality({k \in DOMAIN esAlerts : esAlerts[k] = a})

\* s is an initial part of t.
IsPrefix(s, t) == Len(s) <= Len(t) /\ SubSeq(t, 1, Len(s)) = s

\* A bulk request has just succeeded.
FlushSucceeded == esPc = "process" /\ esPc' = "recv"

\* C5: every sink worker eventually terminates once its ingress channel is closed
\* (all senders dropped); stated here for ElasticsearchWorker.
C5_WorkerTerminatesOnClose == (~esTxOpen) ~> (esPc = "done")

\* C6: when the bulk request for a batch fails, the whole batch is sent again
\* after the back-off: the next bulk request starts with the messages of the
\* failed one.
C6_FailedBatchResent ==
    (esPc = "process" /\ esFailedBatch # <<>>) => IsPrefix(esFailedBatch, batch)

C9_BackoffSeconds ==
    (esPc = "sleep" /\ esRunFailed) =>
        /\ esSleep = Min(5 * retries, max_retry_seconds)
        /\ esSleep <= max_retry_seconds

\* C9 witness: a sleep after the third failure in a row cut down to a
\* max_retry_seconds of 12.
C9_Witness ==
    /\ esPc = "sleep" /\ esRunFailed
    /\ retries = 3 /\ max_retry_seconds = 12 /\ esSleep = 12

\* C10: the flush period is multiplied by 1.2 (capped at 30 s) each time a flush
\* is triggered by a full batch and by 0.8 (floored at 2 s) each time it is
\* triggered by the period elapsing first (in tenths of a second).
C10_AdaptivePeriod ==
    [][(esTrigger = "none" /\ esTrigger' # "none") =>
          10 * period_seconds' =
              IF esTrigger' = "full"
              THEN Min(12 * period_seconds, 300)
              ELSE Max(8 * period_seconds, 20)]_vars

\* ---- FileWorker claims

\* A step in which QueuedAppender::write ran for the message at the head of the
\* group being processed.
FileWriteStep == fCur # <<>> /\ fLast'.id = Head(fCur).id /\ fLast'.step = "write"

\* C11: QueuedAppender::write flushes exactly when, after adding the line, the
\* lines buffered for the channel (over all its day files) number at least the
\* capacity or at least the period has passed since the channel's last flush;
\* after any successful write the channel buffers fewer lines than the capacity.
C11_FlushWhenFullOrDue ==
    [][FileWriteStep =>
         LET c == Head(fCur).ch
             elapsed == IF fHas[c] THEN fElapsed[c] ELSE 0
         IN /\ (fLast'.flush # "none") <=>
                  (QueueLen(fQueue[c]) + 1 >= FileCapacity
                     \/ elapsed >= FilePeriodSeconds)
            /\ fLast'.ok => QueueLen(fQueue'[c]) < FileCapacity]_vars

\* A write has just flushed its channel, whose files now hold one line more than
\* the capacity: one flush was by the count, another by the time.
C11_Witness ==
    /\ fLast.flush = "ok"
    /\ \E c \in FChannels : fLast.ch = c /\ QueueLen(fFiles[c]) = FileCapacity + 1

\* C12: within one channel and day, the lines of the file are in the order they
\* were written (the ids are given in that order), across flushes.
C12_FileKeepsWriteOrder ==
    \A c \in FChannels, d \in FDays :
        \A i, j \in 1..Len(fFiles[c][d]) :
            i < j => fFiles[c][d][i] <= fFiles[c][d][j]

\* ---- UsernameWorker claims

\* A step that is one turn of the loop of UsernameWorker::run.
UsernameStep == uPc = "run" /\ uPc' = "run" /\ <<uNext, uQueue, uDb, uLast>>' # <<uNext, uQueue, uDb, uLast>>

\* The queue of the turn being taken: the old queue and the updates of the event.
Appended == uQueue \o [i \in 1..(uNext' - uNext) |-> uNext + i]

\* The queue as the turn's test for a backed up queue finds it: empty after a
\* flush that succeeded.
AfterFlush == IF uLast'.flush = "ok" THEN <<>> ELSE Appended

\* C13 (as stated): the oldest batch_size updates are dropped exactly when
\* the queue exceeds 10 x batch_size; the remaining updates keep their order and
\* no newer update is dropped.
C13_DropsOldestWhenExceeding ==
    [][UsernameStep =>
         /\ uLast'.dropped <=> Len(AfterFlush) > QueueFactor * uBatch
         /\ uQueue' = IF uLast'.dropped
                      THEN SubSeq(AfterFlush, uBatch + 1, Len(AfterFlush))
                      ELSE AfterFlush]_vars

\* C13 (amended): the oldest batch_size updates are dropped exactly when the
\* queue has reached 10 x batch_size (holds at least that many updates); the
\* remaining updates keep their order and no newer update is dropped.
C13_DropsOldestWhenReaching ==
    [][UsernameStep =>
         /\ uLast'.dropped <=> Len(AfterFlush) >= QueueFactor * uBatch
         /\ uQueue' = IF uLast'.dropped
                      THEN SubSeq(AfterFlush, uBatch + 1, Len(AfterFlush))
                      ELSE AfterFlush]_vars

\* The oldest update has been dropped from a queue that held more than
\* 10 x batch_size updates, and the others are still queued in order.
C13_Witness ==
    /\ uLast.dropped
    /\ Len(uQueue) = QueueFactor * uBatch
    /\ uQueue[1] > uBatch
    /\ \A i \in 1..(Len(uQueue) - 1) : uQueue[i + 1] = uQueue[i] + 1

\* C14: process writes a batch atomically: when a row or the commit fails, none
\* of the batch's rows becomes visible in name_changes, and the queue is kept for
\* a later attempt.
C14_FailedBatchLeavesNoRows ==
    [][UsernameStep /\ uLast'.flush = "failed" =>
         /\ uDb' = uDb
         /\ uQueue' = IF uLast'.dropped
                      THEN SubSeq(Appended, uBatch + 1, Len(Appended))
                      ELSE Appended]_vars

\* ---- DggWorker claims

\* The sleep at which the run of consecutive reconnects holding sleep i began:
\* the last one up to i before which a text frame was received, or the first.
RunStart(i) ==
    CHOOSE j \in 1..i :
        /\ j = 1 \/ gWaits[j].text
        /\ \A l \in (j + 1)..i : ~gWaits[l].text

\* C15: the wait before the k-th consecutive reconnect attempt (no text frame
\* received since the first failure) is min(2 x 3^(k-1), max_retry_seconds)
\* seconds; it never exceeds max_retry_seconds.
C15_WaitIsCappedPowerOfThree ==
    \A i \in 1..Len(gWaits) :
        gWaits[i].wait = Min(BackoffMin * Pow(BackoffFactor, i - RunStart(i)),
                             backoff_max)

\* A step of run that sleeps.
SleepStep == Len(gWaits') = Len(gWaits) + 1

\* C16: after a text frame was received on a connection the wait before the next
\* reconnect attempt is the minimum, 2 s, whatever the back-off had grown to; a
\* connection that delivers no text frame does not reset it: the next wait is
\* the grown one.
C16_TextFrameResetsBackoff ==
    [][SleepStep =>
         LET w == gWaits'[Len(gWaits')].wait
         IN /\ gGotText => w = BackoffMin
            /\ (~gGotText /\ gWaits # <<>>) =>
                  w = Min(backoff_max, BackoffFactor * gWaits[Len(gWaits)].wait)]_vars

\* The back-off had grown to 18 s or more, a connection then delivered a text
\* frame, and the wait after it was 2 s; before that a connection had opened
\* and ended without a text frame and the wait went on growing.
C16_Witness ==
    \E i \in 2..Len(gWaits) :
        /\ gWaits[i].text
        /\ gWaits[i].wait = BackoffMin
        /\ gWaits[i - 1].wait >= 18
        /\ ~gWaits[i - 1].text

\* C17: run terminates only when an invalid URL is reported; after every other
\* failure it reconnects and keeps running; an invalid URL always leads to the
\* fatal stop.
C17_StopsExactlyOnInvalidUrl ==
    /\ gPc \in {"stopped", "panicked"} => gEnd.kind \in {"Url", "BadRequest"}
    /\ gEnd.kind \in {"Url", "BadRequest"} => gPc \in {"stopped", "panicked"}

\* The pings of the log of the connection.
Pings == SelectSeq(gLog, LAMBDA x : x.e = "ping")

\* A step in which check_pong_interval ticks.
CheckStep == gPc = "open" /\ gClock < gCheckDue /\ gClock' = gCheckDue

\* C18: on an open connection a Ping is sent every 30 s; if no Pong has been
\* received by 5 s after a Ping, start_websocket returns Reconnect; if a Pong
\* arrived within those 5 s the connection is kept.
C18_PingEvery30PongWithin5 ==
    /\ [](gPc = "open" =>
            /\ Len(Pings) = gClock \div PingEverySeconds
            /\ \A i \in 1..Len(Pings) : Pings[i].at = i * PingEverySeconds)
    /\ [][CheckStep =>
            /\ gCheckDue = Pings[Len(Pings)].at + CheckPongEverySeconds
            /\ IF gLog[Len(gLog)].e = "pong"
               THEN gPc' = "open"
               ELSE gPc' = "top" /\ gEnd'.kind = "PongTimeout"
                    /\ gEnd'.cmd = "Reconnect"]_vars

\* A connection has been kept at its first check (a Pong came after the Ping)
\* and has sent its second Ping, after an earlier connection had been given up
\* for a missing Pong.
C18_Witness ==
    /\ gPc = "open"
    /\ gClock = 2 * PingEverySeconds
    /\ gEnd.kind = "PongTimeout"

\* ---- ORL parser claims

\* C19: parse_message_line and parse_timestamp are total: for every input,
\* digit runs of any length included, they return a record or an error and never
\* panic or overflow.
C19_ParsersTotalNoOverflow ==
    /\ pPc # "start" => pTs.kind \in {"ok", "err"} /\ ~pTs.overflow
    /\ pPc = "line" => pMsg.kind \in {"ok", "err"} /\ ~pMsg.overflow

\* The components of the input are runs of at most four digits.
ShortRuns(in) ==
    \A f \in {"year", "month", "day", "hour", "minute", "second", "millisecond"} :
        Len(in[f]) <= 4

\* A component of the input is out of range.
OutOfRange(in) ==
    \/ Value(in.month) \notin 1..12
    \/ Value(in.day) \notin 1..DaysInMonth(Value(in.year), Value(in.month))
    \/ Value(in.hour) > 23
    \/ Value(in.minute) > 59
    \/ Value(in.second) > 59
    \/ Value(in.millisecond) > 999

\* C20: parse_timestamp returns an error for the empty or blank string, a string
\* without the time half, one without the date half, a 'T' separator, and any
\* out-of-range component: month outside 1..12, day beyond the month's length
\* (leap years respected), hour > 23, minute > 59, second > 59,
\* millisecond > 999.
C20_RejectsMalformedAndOutOfRange ==
    (/\ pPc # "start"
     /\ ShortRuns(pIn)
     /\ pIn.form # "full" \/ OutOfRange(pIn))
        => pTs.kind = "err"

\* The input is a canonical timestamp string: YYYY-MM-DD HH:MM:SS, with or
\* without .mmm, with or without the " UTC" suffix.
Canonical(in) ==
    /\ in.form = "full"
    /\ Len(in.year) = 4
    /\ \A f \in {"month", "day", "hour", "minute", "second"} : Len(in[f]) = 2
    /\ Len(in.millisecond) \in {0, 3}
    /\ in.suffix \in {<<>>, Utc}

\* The two results are the same instant.
SameInstant(fast, slow) ==
    /\ fast.kind = "ok" /\ slow.kind = "ok"
    /\ \A f \in {"year", "month", "day", "hour", "minute", "second"} :
          fast[f] = slow[f]
    /\ fast.millisecond * 1000000 = slow.nanos

Line == RenderLine(pLineForm, Render(pIn))

\* The place of the first c of s at or after place from; 0 when there is none.
FirstAt(s, c, from) ==
    IF \E i \in from..Len(s) : s[i] = c
    THEN CHOOSE i \in from..Len(s) : s[i] = c /\ \A j \in from..(i - 1) : s[j] # c
    ELSE 0

\* t is s without the whitespace at its two ends.
Stripped(s, t) ==
    /\ t = <<>> \/ (~IsWhitespace(t[1]) /\ ~IsWhitespace(t[Len(t)]))
    /\ \E i \in 1..(Len(s) + 1) :
          /\ i + Len(t) - 1 <= Len(s)
          /\ t = SubSeq(s, i, i + Len(t) - 1)
          /\ \A j \in 1..Len(s) : (j < i \/ j >= i + Len(t)) => IsWhitespace(s[j])

\* t is s without the '[' at its start.
Unbracketed(s, t) ==
    /\ t = <<>> \/ t[1] # "["
    /\ Len(t) <= Len(s)
    /\ t = SubSeq(s, Len(s) - Len(t) + 1, Len(s))
    /\ \A j \in 1..(Len(s) - Len(t)) : s[j] = "["

\* t is s in lower case.
LowerCased(s, t) ==
    /\ Len(t) = Len(s)
    /\ \A i \in 1..Len(s) :
          /\ \A k \in 1..26 : s[i] = UpperChars[k] => t[i] = LowerChars[k]
          /\ (\A k \in 1..26 : s[i] # UpperChars[k]) => t[i] = s[i]

\* t is s with a space for every newline.
Unwrapped(s, t) ==
    /\ Len(t) = Len(s)
    /\ \A i \in 1..Len(s) : t[i] = (IF s[i] = "\n" THEN " " ELSE s[i])

\* C22: a record of parse_message_line holds the timestamp of the text before the
\* first ']' without its leading '[' and surrounding whitespace, as username the
\* trimmed, lower-cased text between that ']' and the first ':' after it, and as
\* text the trimmed rest with a space for every newline.
C22_FieldsOfAcceptedLine ==
    (pPc = "line" /\ pMsg.kind = "ok") =>
        LET b == FirstAt(Line, "]", 1)
            c == FirstAt(Line, ":", b + 1)
        IN /\ b > 0
           /\ c > 0
           /\ \E k \in 0..(b - 1) :
                 /\ Unbracketed(SubSeq(Line, 1, b - 1), SubSeq(Line, k + 1, b - 1))
                 /\ Stripped(SubSeq(Line, k + 1, b - 1), Render(pIn))
           /\ pMsg.ts = pTs
           /\ \E i \in (b + 1)..c : \E j \in (i - 1)..(c - 1) :
                 /\ Stripped(SubSeq(Line, b + 1, c - 1), SubSeq(Line, i, j))
                 /\ LowerCased(SubSeq(Line, i, j), pMsg.username)
           /\ \E i \in (c + 1)..(Len(Line) + 1) : \E j \in (i - 1)..Len(Line) :
                 /\ Stripped(SubSeq(Line, c + 1, Len(Line)), SubSeq(Line, i, j))
                 /\ Unwrapped(SubSeq(Line, i, j), pMsg.text)

C22_Witness ==
    /\ pPc = "line"
    /\ pMsg.kind = "ok"
    /\ pLineForm = "spaced"
    /\ pMsg.username = <<"t", "e", " ", "c", "a">>
    /\ pMsg.text = <<"a", " ", "b">>

\* C23: parse_message_line returns an error, and no record, for a line without a
\* ']', for one without a ':' after its first ']', and for one whose timestamp
\* field parse_timestamp rejects.
C23_RejectsLineWithoutParts ==
    (/\ pPc = "line"
     /\ \/ FirstAt(Line, "]", 1) = 0
        \/ FirstAt(Line, ":", FirstAt(Line, "]", 1) + 1) = 0
        \/ pTs.kind = "err") => pMsg.kind = "err"

C23_Witness ==
    /\ pPc = "line"
    /\ pLineForm = "noColon"
    /\ FirstAt(Line, "]", 1) > 0
    /\ pTs.kind = "ok"
    /\ pMsg.kind = "err"

\* The record again has the timestamp, username and text of msg.
SameRecord(msg, again) ==
    /\ again.kind = "ok"
    /\ \A f \in {"year", "month", "day", "hour", "minute", "second", "millisecond"} :
          again.ts[f] = msg.ts[f]
    /\ again.username = msg.username
    /\ again.text = msg.text

\* C24: the record of an accepted line, written as '[<timestamp> UTC] <username>:
\* <text>' and parsed again, comes back with the same timestamp, username and text.
C24_WrittenLineParsesBack == (pPc = "again") => SameRecord(pMsg, pAgain)

\* ---- the form of an accepted timestamp

\* The input has the documented form `YYYY-MM-DD HH:MM:SS[.mmm][ UTC]`: a digit
\* run that is not empty for each of the six fields, and after the seconds or the
\* milliseconds nothing other than whitespace and the suffix UTC.
DocumentedForm(in) ==
    /\ in.form = "full"
    /\ \A f \in {"year", "month", "day", "hour", "minute", "second"} : in[f] # <<>>
    /\ in.suffix \in {<<>>, Utc}

\* C33: parse_timestamp succeeds only on inputs of the documented form.
C33_AcceptsOnlyDocumentedForm ==
    (pPc # "start" /\ pTs.kind = "ok") => DocumentedForm(pIn)

\* ---- JsonFileSource claims

\* The records of the files that decode.
GoodRecords ==
    {r \in (1..MaxJsonFiles) \X (1..MaxJsonRecords) :
        r[1] <= Len(jFiles) /\ r[2] <= Len(jFiles[r[1]]) /\ jFiles[r[1]][r[2]] = "ok"}

\* C31: a record that fails to decode is dropped and decoding continues: the
\* stream does not panic, and when it has ended it has delivered every record that
\* decodes, of every file.
C31_BadRecordDroppedOthersDelivered ==
    /\ jPc # "panicked"
    /\ jPc = "done" => jDelivered = GoodRecords

\* ---- Elasticsearch bulk claims

\* <YYYY-MM> of a date.
YearMonth(date) == Decimal(date.year) \o <<"-">> \o D2(date.month)

\* C32: in the Elasticsearch bulk paths the index of each message is named
\* <base>-<YYYY-MM> from the message's UTC timestamp, and two messages get the same
\* index exactly when their timestamps fall in the same calendar month.
C32_IndexNamedByMonth ==
    (iPc = "named") =>
        /\ \A k \in 1..2 : iIndex[k] = IndexBase \o <<"-">> \o YearMonth(iMsgs[k])
        /\ iIndex[1] = iIndex[2] <=>
              /\ iMsgs[1].year = iMsgs[2].year
              /\ iMsgs[1].month = iMsgs[2].month

\* ---- split_insert claims

\* How many times message m was written by the tasks, over all inserters.
TimesWritten(m) ==
    Cardinality({p \in (1..sCount) \X (1..MaxChunkLen) :
                    p[2] <= Len(sRows[p[1]]) /\ sRows[p[1]][p[2]] = m})

\* C34: split_insert hands every message of a chunk to exactly one inserter: when
\* it has returned and no task failed, the messages written by the tasks are
\* exactly the messages of the chunk, none missing and none twice.
C34_EveryMessageWrittenOnce ==
    (sPc \in {"returned", "done"} /\ \A i \in 1..sCount : sTask[i] # "err") =>
        \A m \in 1..sLen : TimesWritten(m) = 1

\* C35: if an insert_messages task fails to write or commit its rows,
\* split_insert returns an error, and the command stops instead of continuing.
C35_TaskErrorIsReturned ==
    /\ (sPc \in {"returned", "done"} /\ \E i \in 1..sCount : sTask[i] = "err")
          => sResult = "err"
    /\ (sPc = "done" /\ \E i \in 1..sCount : sTask[i] = "err")
          => sCaller = "stopped"

\* ---- ClickhouseBulkSink claims

\* C36: ClickhouseBulkSink::run terminates: it returns, also when some or all of
\* the workers have exited early after a failed write_batch while chunks are still
\* being produced.
C36_RunTerminates == <>(bPc = "returned")

\* The places where chunk k is: held by run, queued in the channel, held by a
\* worker, or written by a worker.
PlacesOfChunk(k) ==
    (IF bHeld = k THEN 1 ELSE 0)
    + Cardinality({i \in DOMAIN bChan : bChan[i] = k})
    + Cardinality({w \in BulkWorkers : bHolding[w] = k})
    + Cardinality({p \in BulkWorkers \X (1..MaxBulkChunks) :
                      p[2] <= Len(bWritten[p[1]]) /\ bWritten[p[1]][p[2]] = k})

WritesOfChunk(k) ==
    Cardinality({p \in BulkWorkers \X (1..MaxBulkChunks) :
                    p[2] <= Len(bWritten[p[1]]) /\ bWritten[p[1]][p[2]] = k})

RECURSIVE RowsUpTo(_)
RowsUpTo(n) == IF n = 0 THEN 0 ELSE RowsOf(n) + RowsUpTo(n - 1)

\* C37: as long as no write fails, every chunk taken from the input stream is on
\* its way to, or written by, exactly one worker, never two and never none; when
\* run has returned Ok every chunk of the stream was written exactly once and the
\* final count is the number of rows of the stream.
C37_EachChunkWrittenByOneWorker ==
    (\A w \in BulkWorkers : bWorker[w] # "err") =>
        /\ \A k \in 1..bNext : PlacesOfChunk(k) = 1
        /\ (bPc = "returned" /\ bResult = "ok") =>
              /\ \A k \in 1..bTotal : WritesOfChunk(k) = 1
              /\ bCount = RowsUpTo(bTotal)

\* C37 witness: run has returned after a stream of MaxBulkChunks chunks, no write
\* failed, and each worker wrote some of the chunks.
C37_Witness ==
    /\ bPc = "returned" /\ bResult = "ok"
    /\ bTotal = MaxBulkChunks
    /\ \A w \in BulkWorkers : bWorker[w] = "ok" /\ bWritten[w] # <<>>
    /\ bCount = RowsUpTo(MaxBulkChunks)

\* ---- normalization claims

\* C25: normalize is idempotent: the normalized message normalized again has the
\* same channel, username, text, id and timestamp.
C25_NormalizeIdempotent == (nPc = "twice") => nTwice = nOnce

\* C26: the record that parse_orl_log builds for a line of a channel's file has the
\* id of the normalized record of the same fields.
C26_ParsedIdIsNormalizedId == (oPc = "ids") => oIds.parsed = oIds.normal

\* ---- main claims

\* C27: the process ends with status 1 when the run of its subcommand returned an
\* error, and with status 0 only when it returned Ok.
C27_ExitStatusTellsFailure ==
    (mPc = "exited" /\ mResult # "none") =>
        /\ mResult = "err" => mExit = 1
        /\ mExit = 0 => mResult = "ok"

\* ---- quarantine alert claims

\* The number of quarantine alerts emitted for writer i.
AlertsFor(i) == Cardinality({k \in DOMAIN quarantineAlerts : quarantineAlerts[k] = i})

\* C28: a writer that is quarantined gets exactly one error alert, emitted in the
\* loop iteration in which its write failed; a writer whose writes succeeded gets
\* none, and no other step emits a quarantine alert.
C28_OneAlertPerQuarantine ==
    /\ [](\A i \in Writers : AlertsFor(i) = (IF writers[i] THEN 0 ELSE 1))
    /\ [][/\ \A i \in Writers :
               (writers[i] /\ ~writers'[i]) =>
                   /\ DispatchStep
                   /\ ~WriteOk(i, Head(eventChan))
                   /\ failedAt'[i] = Len(dispatched')
                   /\ \E k \in (Len(quarantineAlerts) + 1)..Len(quarantineAlerts') :
                         quarantineAlerts'[k] = i
          /\ quarantineAlerts' # quarantineAlerts =>
                /\ DispatchStep
                /\ SubSeq(quarantineAlerts', 1, Len(quarantineAlerts)) = quarantineAlerts
                /\ \A k \in (Len(quarantineAlerts) + 1)..Len(quarantineAlerts') :
                      /\ writers[quarantineAlerts'[k]]
                      /\ ~WriteOk(quarantineAlerts'[k], Head(eventChan))]_vars

\* C28 witness: a writer was written one event, failed on the second and has its
\* one alert; the others are active and have none.
C28_Witness ==
    \E i \in Writers :
        /\ ~writers[i]
        /\ failedAt[i] = 2
        /\ quarantineAlerts = <<i>>
        /\ \A j \in Writers \ {i} : writers[j] /\ AlertsFor(j) = 0

\* ---- write error claims

\* C29: a write returns an error, and its writer is quarantined, only when the
\* worker has returned and dropped its receiver; a writer whose worker is running,
\* whatever errors the worker has handled (a disk error, a failed bulk request), is
\* not quarantined.
C29_WriteFailsOnlyOnDroppedReceiver ==
    /\ [](\A i \in Writers :
            /\ rxOpen[i] <=> wpc[i] # "done"
            /\ wpc[i] # "done" => writers[i])
    /\ [][\A i \in Writers :
            (writers[i] /\ ~writers'[i]) =>
                /\ ~rxOpen[i]
                /\ wpc[i] = "done"
                /\ ~WriteOk(i, Head(eventChan))]_vars

\* C29 witness: the file worker and the Elasticsearch worker have each handled an
\* error, each was written to after that, and no writer is quarantined.
C29_Witness ==
    /\ \A i \in Writers : writers[i]
    /\ \A i \in Writers : WriterKinds[i] \in {"File", "Elasticsearch"} => erred[i] = "written"
    /\ Len(dispatched) = MaxEvents

\* ---- write after the worker has terminated

\* What a writer's write sends for an event of a kind: the file writer sends the
\* event's group whatever it holds, the username tracker sends Twitch events, the
\* Elasticsearch writer sends one message for each SimpleMessage of the event.
SendsSomething(i, kind) ==
    CASE WriterKinds[i] = "File" -> TRUE
      [] WriterKinds[i] = "UsernameTracker" -> kind = "PrivmsgBits"
      [] WriterKinds[i] = "Elasticsearch" -> kind = "PrivmsgBits"

\* C39 (as stated): once a sink's worker has terminated (its receiver is dropped),
\* the first event the dispatcher hands to that sink makes write return an error
\* and gets the sink quarantined, whatever the kind of the event.
C39_DeadWorkerQuarantinedByAnyEvent ==
    [][DispatchStep =>
         \A i \in Writers :
            (writers[i] /\ ~rxOpen[i]) =>
                ~writers'[i] /\ failedAt'[i] = Len(dispatched')]_vars

\* C39 (amended): once a sink's worker has terminated, the first event for which
\* write sends something to the worker makes write return an error and gets the
\* sink quarantined; an event for which write sends nothing (an event without a
\* SimpleMessage for Elasticsearch, a DGG event for the username tracker) returns
\* Ok and leaves the sink active.
C39_DeadWorkerQuarantinedByFirstSend ==
    [][DispatchStep =>
         \A i \in Writers :
            (writers[i] /\ ~rxOpen[i]) =>
                IF SendsSomething(i, Head(eventChan).kind)
                THEN ~writers'[i] /\ failedAt'[i] = Len(dispatched')
                ELSE writers'[i] /\ failedAt'[i] = 0]_vars

\* C39 witness: the Elasticsearch worker and the username worker had terminated
\* before they received anything; both writers were handed a DGG JOIN and stayed
\* active, and both were quarantined by the PRIVMSG that followed.
C39_Witness ==
    /\ Len(dispatched) >= 2
    /\ dispatched[1].kind = "DggJoin"
    /\ dispatched[2].kind = "PrivmsgBits"
    /\ \A i \in Writers :
          WriterKinds[i] \in {"Elasticsearch", "UsernameTracker"} =>
              /\ ~writers[i] /\ failedAt[i] = 2
              /\ received[i] = <<>>
              /\ Len(writeLog[i]) = 2

\* ---- FileWorker liveness claims

\* Line k is in the buffer of a QueuedAppender; line k is in a file.
Buffered(k) == \E c \in FChannels, d \in FDays : k \in Range(fQueue[c][d])

InFile(k) == \E c \in FChannels, d \in FDays : k \in Range(fFiles[c][d])

\* C30: a line that the file sink has buffered is eventually appended to its file,
\* also when no further message arrives.
C30_BufferedLineEventuallyAppended == \A k \in 1..MaxLines : Buffered(k) ~> InFile(k)

\* ---- FileWorker duplicate lines

\* The places of the files of the sink where line k stands.
PlacesInFiles(k) ==
    {p \in FChannels \X FDays \X (1..(2 * MaxLines * MaxLines)) :
        p[3] <= Len(fFiles[p[1]][p[2]]) /\ fFiles[p[1]][p[2]][p[3]] = k}

\* C38: every line the file sink accepted is appended to its file at most once,
\* also when a flush failed part-way: the lines of a day file that the failed
\* flush had already written are not written again by a later flush.
C38_LineAppendedAtMostOnce == \A k \in 1..MaxLines : Cardinality(PlacesInFiles(k)) <= 1

\* ---- UsernameWorker queue bound

\* C40: after the worker has handled an event its queue of updates holds fewer
\* than 10 x batch_size entries, for every batch_size and every sequence of
\* events and flush failures.
C40_QueueBelowTenBatches == Len(uQueue) < QueueFactor * uBatch

====
